---- MODULE Spec2Model ----
(***************************************************************************)
(* A model of script.js (turnstilelabs/mars): the LaTeX-to-safe-HTML       *)
(* pipeline processLatexForDisplay and the tolerant candidate parser       *)
(* parseCandidates.                                                        *)
(*                                                                         *)
(* A JavaScript string is a sequence of characters; a character is a       *)
(* one-character TLA+ string (the bullet U+2022 is the atom "BULLET").     *)
(* Positions are 1-based here (JavaScript's index + 1); the end of a match  *)
(* is exclusive, so a match from i to e covers s[i] .. s[e-1].            *)
(***************************************************************************)
EXTENDS Integers, Sequences, FiniteSets, TLC

VARIABLES
    pc,         \* "ready" before the call under study, "done" after it returned,
                \* "raised" after it threw, "hung" when it never returns
    rawStr,     \* the argument of processLatexForDisplay
    latex,      \* what the call computed (LatexResult), or NoLatex before it
    predicted,  \* query.predicted_candidates of the query displayReferences shows
    cand,       \* what parseCandidates did with it, or NoCandidates before the call
    view,       \* what displayReferences left in referencesContainer, or NoView
    papers,             \* the loaded dataset (line 140)
    currentPaperId,     \* line 4
    currentArtifactId,  \* line 5
    hash,       \* window.location.hash
    dom,        \* what the page shows (EmptyDom before the first render)
    listening,  \* the hashchange listener of line 171 is registered
    lastEvent,  \* the event handled last and what its handler did
    run         \* the Next Paper clicks in a row: the paper they started from, their number

navVars == <<papers, currentPaperId, currentArtifactId, hash, dom, listening, lastEvent, run>>

vars == <<pc, rawStr, latex, predicted, cand, view, papers, currentPaperId,
          currentArtifactId, hash, dom, listening, lastEvent, run>>

----------------------------------------------------------------------------
(* Characters and small string helpers                                     *)

BS == "\\"
BULLET == "BULLET"

IsSpace(c) == c \in {" ", "\n", "\t"}

MinOf(S) == CHOOSE x \in S : \A y \in S : x <= y

\* s.slice(i-1, e-1): the characters s[i] .. s[e-1]
Slice(s, i, e) == IF e <= i THEN <<>> ELSE SubSeq(s, i, e - 1)

\* the literal lit occurs in s at position i
IsPrefixAt(lit, s, i) ==
    /\ i >= 1
    /\ i + Len(lit) - 1 <= Len(s)
    /\ \A k \in 1..Len(lit) : s[i + k - 1] = lit[k]

\* the first position >= i where lit occurs in s, 0 if there is none
IndexOfFrom(lit, s, i) ==
    LET c == {j \in i..Len(s) : IsPrefixAt(lit, s, j)}
    IN  IF c = {} THEN 0 ELSE MinOf(c)

\* the first position >= i of s that is not whitespace (Len(s)+1 if none): \s*
SkipSpaces(s, i) ==
    LET c == {j \in i..Len(s) : ~IsSpace(s[j])}
    IN  IF c = {} THEN (IF i > Len(s) THEN i ELSE Len(s) + 1) ELSE MinOf(c)

\* String.prototype.trim
Trim(s) ==
    LET c == {j \in 1..Len(s) : ~IsSpace(s[j])}
    IN  IF c = {} THEN <<>>
        ELSE SubSeq(s, MinOf(c), CHOOSE x \in c : \A y \in c : y <= x)

\* the concatenation of a sequence of strings
Flatten(ss) ==
    LET f[k \in 0..Len(ss)] == IF k = 0 THEN <<>> ELSE f[k - 1] \o ss[k]
    IN  f[Len(ss)]

\* lit occurs somewhere in s
Contains(s, lit) == IndexOfFrom(lit, s, 1) # 0

----------------------------------------------------------------------------
(* processLatexForDisplay, step 1: \begin{equation|align} .. \end{..}      *)

LitBegin == <<BS, "b", "e", "g", "i", "n", "{">>
LitEnd == <<BS, "e", "n", "d", "{">>
EnvEquation == <<"e", "q", "u", "a", "t", "i", "o", "n">>
EnvAlign == <<"a", "l", "i", "g", "n">>
MathEnvs == {EnvEquation, EnvAlign}

\* \{env\*?\} after an already matched \begin or \end: the exclusive end, 0 if no match
EnvNameEnd(env, s, i) ==
    IF ~IsPrefixAt(env, s, i) THEN 0
    ELSE LET j == i + Len(env)
         IN  IF IsPrefixAt(<<"*", "}">>, s, j) THEN j + 2
             ELSE IF IsPrefixAt(<<"}">>, s, j) THEN j + 1
             ELSE 0

\* \\end\{\1\*?\} at position j: the exclusive end, 0 if no match
EndTagEnd(env, s, j) ==
    IF IsPrefixAt(LitEnd, s, j) THEN EnvNameEnd(env, s, j + Len(LitEnd)) ELSE 0

\* EnvBlockAt without the back-reference: the \end of either environment closes
EnvBlockAtAnyEnd(s, i) ==
    LET envs == {env \in MathEnvs :
                    /\ IsPrefixAt(LitBegin, s, i)
                    /\ EnvNameEnd(env, s, i + Len(LitBegin)) # 0}
    IN  IF envs = {} THEN [matched |-> FALSE, innerFrom |-> 0, innerTo |-> 0, stop |-> 0]
        ELSE LET env == CHOOSE e \in envs : TRUE
                 a == EnvNameEnd(env, s, i + Len(LitBegin))
                 ends == {j \in a..Len(s) : \E e2 \in MathEnvs : EndTagEnd(e2, s, j) # 0}
             IN  IF ends = {}
                 THEN [matched |-> FALSE, innerFrom |-> 0, innerTo |-> 0, stop |-> 0]
                 ELSE LET j == MinOf(ends)
                          e2 == CHOOSE x \in MathEnvs : EndTagEnd(x, s, j) # 0
                      IN  [matched |-> TRUE, innerFrom |-> a, innerTo |-> j,
                           stop |-> EndTagEnd(e2, s, j)]

\* /\\begin\{(equation|align)\*?\}([\s\S]*?)\\end\{\1\*?\}/ anchored at i:
\* [matched, env, innerFrom, innerTo (exclusive), stop (exclusive)]
EnvBlockAt(s, i) ==
    LET envs == {env \in MathEnvs :
                    /\ IsPrefixAt(LitBegin, s, i)
                    /\ EnvNameEnd(env, s, i + Len(LitBegin)) # 0}
    IN  IF envs = {} THEN [matched |-> FALSE, innerFrom |-> 0, innerTo |-> 0, stop |-> 0]
        ELSE LET env == CHOOSE e \in envs : TRUE
                 a == EnvNameEnd(env, s, i + Len(LitBegin))
                 ends == {j \in a..Len(s) : EndTagEnd(env, s, j) # 0}
             IN  IF ends = {}
                 THEN [matched |-> FALSE, innerFrom |-> 0, innerTo |-> 0, stop |-> 0]
                 ELSE LET j == MinOf(ends)
                      IN  [matched |-> TRUE, innerFrom |-> a, innerTo |-> j,
                           stop |-> EndTagEnd(env, s, j)]

\* the replacement callback: `\\[${inner.trim()}\\]`
EnvReplacement(inner) == <<BS, "[">> \o Trim(inner) \o <<BS, "]">>

\* line 31: the global replace
NormalizeEnvironments(s) ==
    LET n == Len(s)
        f[i \in 1..(n + 1)] ==
            IF i > n THEN <<>>
            ELSE LET m == EnvBlockAt(s, i)
                 IN  IF m.matched
                     THEN EnvReplacement(Slice(s, m.innerFrom, m.innerTo)) \o f[m.stop]
                     ELSE <<s[i]>> \o f[i + 1]
    IN  f[1]

----------------------------------------------------------------------------
(* processLatexForDisplay, step 2: cleaning (lines 36-46)                  *)

RefCommands ==
    { <<"l", "a", "b", "e", "l">>, <<"r", "e", "f">>,
      <<"e", "q", "r", "e", "f">>, <<"c", "i", "t", "e">> }

\* /\\(label|ref|eqref|cite)\{[^}]*\}/ anchored at i: the exclusive end, 0 if no match
RefCommandEnd(s, i) ==
    LET names == {c \in RefCommands : IsPrefixAt(<<BS>> \o c \o <<"{">>, s, i)}
    IN  IF names = {} THEN 0
        ELSE LET c == CHOOSE x \in names : TRUE
                 close == IndexOfFrom(<<"}">>, s, i + Len(c) + 2)
             IN  IF close = 0 THEN 0 ELSE close + 1

\* line 38: .replace(/\\(label|ref|eqref|cite)\{[^}]*\}/g, '')
RemoveRefCommands(s) ==
    LET n == Len(s)
        f[i \in 1..(n + 1)] ==
            IF i > n THEN <<>>
            ELSE LET e == RefCommandEnd(s, i)
                 IN  IF e # 0 THEN f[e] ELSE <<s[i]>> \o f[i + 1]
    IN  f[1]

ListEnvs ==
    { <<"e", "n", "u", "m", "e", "r", "a", "t", "e">>,
      <<"i", "t", "e", "m", "i", "z", "e">> }

\* \{(enumerate|itemize)\} at i: the exclusive end, 0 if no match
ListNameEnd(s, i) ==
    LET names == {c \in ListEnvs : IsPrefixAt(c \o <<"}">>, s, i)}
    IN  IF names = {} THEN 0 ELSE i + Len(CHOOSE x \in names : TRUE) + 1

\* /\\begin\{(enumerate|itemize)\}(\[[^\]]*\])?/ anchored at i
ListBeginEnd(s, i) ==
    IF ~IsPrefixAt(LitBegin, s, i) THEN 0
    ELSE LET a == ListNameEnd(s, i + Len(LitBegin))
         IN  IF a = 0 THEN 0
             ELSE IF IsPrefixAt(<<"[">>, s, a) /\ IndexOfFrom(<<"]">>, s, a + 1) # 0
                  THEN IndexOfFrom(<<"]">>, s, a + 1) + 1
                  ELSE a

\* line 40
RemoveListBegin(s) ==
    LET n == Len(s)
        f[i \in 1..(n + 1)] ==
            IF i > n THEN <<>>
            ELSE LET e == ListBeginEnd(s, i)
                 IN  IF e # 0 THEN f[e] ELSE <<s[i]>> \o f[i + 1]
    IN  f[1]

\* /\\end\{(enumerate|itemize)\}/ anchored at i
ListEndEnd(s, i) ==
    IF IsPrefixAt(LitEnd, s, i) THEN ListNameEnd(s, i + Len(LitEnd)) ELSE 0

\* line 41
RemoveListEnd(s) ==
    LET n == Len(s)
        f[i \in 1..(n + 1)] ==
            IF i > n THEN <<>>
            ELSE LET e == ListEndEnd(s, i)
                 IN  IF e # 0 THEN f[e] ELSE <<s[i]>> \o f[i + 1]
    IN  f[1]

LitItem == <<BS, "i", "t", "e", "m">>
LitBr == <<"<", "b", "r", ">">>
\* '<br>• ' : the line break, the bullet and a space
ItemReplacement == LitBr \o <<BULLET, " ">>

\* line 42: .replace(/\\item\s*/g, '<br>• ')
ReplaceItems(s) ==
    LET n == Len(s)
        f[i \in 1..(n + 1)] ==
            IF i > n THEN <<>>
            ELSE IF IsPrefixAt(LitItem, s, i)
                 THEN ItemReplacement \o f[SkipSpaces(s, i + Len(LitItem))]
                 ELSE <<s[i]>> \o f[i + 1]
    IN  f[1]

\* line 44: .replace(/~/g, ' ')
ReplaceTildes(s) == [k \in 1..Len(s) |-> IF s[k] = "~" THEN " " ELSE s[k]]

\* line 45: .replace(/\s{2,}/g, ' ')
CollapseSpaces(s) ==
    LET n == Len(s)
        f[i \in 1..(n + 1)] ==
            IF i > n THEN <<>>
            ELSE IF IsSpace(s[i]) /\ SkipSpaces(s, i) >= i + 2
                 THEN <<" ">> \o f[SkipSpaces(s, i)]
                 ELSE <<s[i]>> \o f[i + 1]
    IN  f[1]

\* lines 36-46: the chain of replaces and the final trim
CleanCommands(s) ==
    Trim(CollapseSpaces(ReplaceTildes(ReplaceItems(
        RemoveListEnd(RemoveListBegin(RemoveRefCommands(s)))))))

\* lines 27-46: the normalized string
Normalize(s) == CleanCommands(NormalizeEnvironments(s))

----------------------------------------------------------------------------
(* processLatexForDisplay, step 3: split and escape (lines 48-80)          *)

\* line 49
SENTINEL == <<"_", "_", "B", "R", "_", "S", "E", "N", "T", "I", "N", "E", "L", "_", "_">>

\* /<br\s*\/?>/ anchored at i: the exclusive end, 0 if no match
BrTagEnd(s, i) ==
    IF ~IsPrefixAt(<<"<", "b", "r">>, s, i) THEN 0
    ELSE LET p == SkipSpaces(s, i + 3)
         IN  IF IsPrefixAt(<<"/", ">">>, s, p) THEN p + 2
             ELSE IF IsPrefixAt(<<">">>, s, p) THEN p + 1
             ELSE 0

\* line 51: processedStr.replace(/<br\s*\/?>/g, SENTINEL)
ProtectBreaks(s) ==
    LET n == Len(s)
        f[i \in 1..(n + 1)] ==
            IF i > n THEN <<>>
            ELSE LET e == BrTagEnd(s, i)
                 IN  IF e # 0 THEN SENTINEL \o f[e] ELSE <<s[i]>> \o f[i + 1]
    IN  f[1]

\* EscapeChar with the quotation mark left out of the character class
EscapeCharNoQuote(c) ==
    CASE c = "&" -> <<"&", "a", "m", "p", ";">>
      [] c = "<" -> <<"&", "l", "t", ";">>
      [] c = ">" -> <<"&", "g", "t", ";">>
      [] c = "'" -> <<"&", "#", "3", "9", ";">>
      [] OTHER -> <<c>>

\* lines 53-55 (and 119): the entity of one character
EscapeChar(c) ==
    CASE c = "&" -> <<"&", "a", "m", "p", ";">>
      [] c = "<" -> <<"&", "l", "t", ";">>
      [] c = ">" -> <<"&", "g", "t", ";">>
      [] c = "\"" -> <<"&", "q", "u", "o", "t", ";">>
      [] c = "'" -> <<"&", "#", "3", "9", ";">>
      [] OTHER -> <<c>>

\* lines 53-55: s.replace(/[&<>"']/g, c => entity)
EscapeHTML(s) == Flatten([k \in 1..Len(s) |-> EscapeChar(s[k])])

OpenParen == <<BS, "(">>
CloseParen == <<BS, ")">>
OpenBracket == <<BS, "[">>
CloseBracket == <<BS, "]">>
Dollar == <<"$">>
DoubleDollar == <<"$", "$">>

\* DelimitedEnd with an unterminated opener running to the end of the string
DelimitedEndToEof(open, close, s, i) ==
    IF ~IsPrefixAt(open, s, i) THEN 0
    ELSE LET j == IndexOfFrom(close, s, i + Len(open))
         IN  IF j = 0 THEN Len(s) + 1 ELSE j + Len(close)

\* one alternative of re anchored at i: open, lazily anything, close
DelimitedEnd(open, close, s, i) ==
    IF ~IsPrefixAt(open, s, i) THEN 0
    ELSE LET j == IndexOfFrom(close, s, i + Len(open))
         IN  IF j = 0 THEN 0 ELSE j + Len(close)

\* line 58: re anchored at i, the alternatives in their order; exclusive end, 0 if no match
MathMatchEnd(s, i) ==
    IF DelimitedEnd(OpenParen, CloseParen, s, i) # 0
        THEN DelimitedEnd(OpenParen, CloseParen, s, i)
    ELSE IF DelimitedEnd(OpenBracket, CloseBracket, s, i) # 0
        THEN DelimitedEnd(OpenBracket, CloseBracket, s, i)
    ELSE IF DelimitedEnd(DoubleDollar, DoubleDollar, s, i) # 0
        THEN DelimitedEnd(DoubleDollar, DoubleDollar, s, i)
    ELSE DelimitedEnd(Dollar, Dollar, s, i)

LitHspace == <<BS, "h", "s", "p", "a", "c", "e">>
ThinSpace == <<BS, ",">>

\* /\\hspace\s*\{\s*\}/ anchored at i: the exclusive end, 0 if no match
EmptyHspaceEnd(s, i) ==
    IF ~IsPrefixAt(LitHspace, s, i) THEN 0
    ELSE LET p == SkipSpaces(s, i + Len(LitHspace))
         IN  IF ~IsPrefixAt(<<"{">>, s, p) THEN 0
             ELSE LET q == SkipSpaces(s, p + 1)
                  IN  IF IsPrefixAt(<<"}">>, s, q) THEN q + 1 ELSE 0

\* line 68
RepairEmptyHspace(s) ==
    LET n == Len(s)
        f[i \in 1..(n + 1)] ==
            IF i > n THEN <<>>
            ELSE LET e == EmptyHspaceEnd(s, i)
                 IN  IF e # 0 THEN ThinSpace \o f[e] ELSE <<s[i]>> \o f[i + 1]
    IN  f[1]

\* the lookahead \s*\{[^}]+\} at position i
HasBraceGroup(s, i) ==
    LET p == SkipSpaces(s, i)
    IN  /\ IsPrefixAt(<<"{">>, s, p)
        /\ IndexOfFrom(<<"}">>, s, p + 1) >= p + 2

\* line 69: .replace(/\\hspace(?!\s*\{[^}]+\})/g, '\\,')
RepairBareHspace(s) ==
    LET n == Len(s)
        f[i \in 1..(n + 1)] ==
            IF i > n THEN <<>>
            ELSE IF IsPrefixAt(LitHspace, s, i) /\ ~HasBraceGroup(s, i + Len(LitHspace))
                 THEN ThinSpace \o f[i + Len(LitHspace)]
                 ELSE <<s[i]>> \o f[i + 1]
    IN  f[1]

\* line 70: the replacement string given for '<' inside math
MathLtReplacement == <<"<">>
\* line 71: the replacement string given for '>' inside math
MathGtReplacement == <<">">>

\* lines 70-71: .replace(/</g, ..).replace(/>/g, ..)
ReplaceAngles(s) ==
    Flatten([k \in 1..Len(s) |->
        IF s[k] = "<" THEN MathLtReplacement
        ELSE IF s[k] = ">" THEN MathGtReplacement
        ELSE <<s[k]>>])

\* lines 67-71: mathSeg
MathSeg(m) == ReplaceAngles(RepairBareHspace(RepairEmptyHspace(m)))

\* lines 59-77: the segments the scan loop appends to out, in order. A segment is
\* [kind, from, to, src, html]: src = processedStr.slice(from-1, to-1), html what
\* is appended for it. The text before a match is appended even when empty; the
\* tail only when last < processedStr.length.
ScanSegments(s) ==
    LET n == Len(s)
        NextMatch(last) ==
            LET c == {i \in last..n : MathMatchEnd(s, i) # 0}
            IN  IF c = {} THEN 0 ELSE MinOf(c)
        f[last \in 1..(n + 1)] ==
            LET i == NextMatch(last)
            IN  IF i = 0
                THEN IF last <= n
                     THEN << [kind |-> "plain", from |-> last, to |-> n + 1,
                              src |-> Slice(s, last, n + 1),
                              html |-> EscapeHTML(Slice(s, last, n + 1))] >>
                     ELSE <<>>
                ELSE LET e == MathMatchEnd(s, i)
                     IN  << [kind |-> "plain", from |-> last, to |-> i,
                             src |-> Slice(s, last, i),
                             html |-> EscapeHTML(Slice(s, last, i))],
                            [kind |-> "math", from |-> i, to |-> e,
                             src |-> Slice(s, i, e),
                             html |-> MathSeg(Slice(s, i, e))] >> \o f[e]
    IN  f[1]

\* out after the loop: the segments' html, concatenated
JoinHtml(segs) == Flatten([k \in 1..Len(segs) |-> segs[k].html])

\* line 80: out.replace(new RegExp(SENTINEL, 'g'), '<br>')
RestoreBreaks(s) ==
    LET n == Len(s)
        f[i \in 1..(n + 1)] ==
            IF i > n THEN <<>>
            ELSE IF IsPrefixAt(SENTINEL, s, i)
                 THEN LitBr \o f[i + Len(SENTINEL)]
                 ELSE <<s[i]>> \o f[i + 1]
    IN  f[1]

\* processLatexForDisplay(rawStr), with the intermediate values the claims speak of:
\* afterEnv (line 33), normalized (line 46), processedStr (line 51), the segments
\* and out of the scan loop (lines 59-77), and the value returned (line 80)
ProcessLatexForDisplay(s) ==
    LET afterEnv == NormalizeEnvironments(s)
        normalized == CleanCommands(afterEnv)
        processedStr == ProtectBreaks(normalized)
        segs == ScanSegments(processedStr)
        out == JoinHtml(segs)
    IN  [afterEnv |-> afterEnv, normalized |-> normalized,
         processedStr |-> processedStr, segs |-> segs, out |-> out,
         html |-> RestoreBreaks(out)]

\* the value of latex before the call
NoLatex ==
    [afterEnv |-> <<>>, normalized |-> <<>>, processedStr |-> <<>>,
     segs |-> <<>>, out |-> <<>>, html |-> <<>>]

----------------------------------------------------------------------------
(* JavaScript values, JSON.parse and the evaluation of a literal            *)

\* A value is a node [t, s, items]: t its type, s the characters of a string, of
\* a number as written, of true/false or of an identifier, items the elements of
\* an array or the entries of an object in insertion order (an entry is a node
\* of type "entry": s its key, items its one value).
JsUndefined == [t |-> "undefined", s |-> <<>>, items |-> <<>>]
JsNull == [t |-> "null", s |-> <<>>, items |-> <<>>]
JsTrue == [t |-> "bool", s |-> <<"t", "r", "u", "e">>, items |-> <<>>]
JsFalse == [t |-> "bool", s |-> <<"f", "a", "l", "s", "e">>, items |-> <<>>]
JsNum(text) == [t |-> "num", s |-> text, items |-> <<>>]
JsStr(text) == [t |-> "str", s |-> text, items |-> <<>>]
JsArr(elems) == [t |-> "arr", s |-> <<>>, items |-> elems]
JsObj(entries) == [t |-> "obj", s |-> <<>>, items |-> entries]
JsEntry(key, val) == [t |-> "entry", s |-> key, items |-> <<val>>]

\* obj[key] = val: a key already there keeps its place and takes the new value
PutEntry(entries, key, val) ==
    IF \E k \in 1..Len(entries) : entries[k].s = key
    THEN [k \in 1..Len(entries) |->
            IF entries[k].s = key THEN JsEntry(key, val) ELSE entries[k]]
    ELSE Append(entries, JsEntry(key, val))

\* v[key] of any value: undefined unless v is an object with that key
GetProp(v, key) ==
    IF v.t = "obj" /\ \E k \in 1..Len(v.items) : v.items[k].s = key
    THEN v.items[CHOOSE k \in 1..Len(v.items) : v.items[k].s = key].items[1]
    ELSE JsUndefined

Digits == {"0", "1", "2", "3", "4", "5", "6", "7", "8", "9"}

CharAt(s, i) == IF i >= 1 /\ i <= Len(s) THEN s[i] ELSE "EOF"

\* a JSON number at i: -?(0|[1-9]\d*)(\.\d+)?([eE][+-]?\d+)? ; the exclusive end,
\* 0 if none. m[<<q, k>>] reads s[k] in state q of the pattern.
NumberEnd(s, i) ==
    LET m[x \in {"sign", "first", "int", "point", "dot", "frac", "e", "esign", "exp"}
                    \X (1..(Len(s) + 2))] ==
            LET k == x[2]
                ch == CharAt(s, k)
            IN  CASE x[1] = "sign" ->
                        IF ch = "-" THEN m[<<"first", k + 1>>] ELSE m[<<"first", k>>]
                  [] x[1] = "first" ->
                        IF ch = "0" THEN m[<<"point", k + 1>>]
                        ELSE IF ch \in Digits THEN m[<<"int", k + 1>>]
                        ELSE 0
                  [] x[1] = "int" ->
                        IF ch \in Digits THEN m[<<"int", k + 1>>] ELSE m[<<"point", k>>]
                  [] x[1] = "point" ->
                        IF ch = "." THEN m[<<"dot", k + 1>>] ELSE m[<<"e", k>>]
                  [] x[1] = "dot" ->
                        IF ch \in Digits THEN m[<<"frac", k + 1>>] ELSE 0
                  [] x[1] = "frac" ->
                        IF ch \in Digits THEN m[<<"frac", k + 1>>] ELSE m[<<"e", k>>]
                  [] x[1] = "e" ->
                        IF ch \in {"e", "E"} THEN m[<<"esign", k + 1>>] ELSE k
                  [] x[1] = "esign" ->
                        IF ch \in {"+", "-"} THEN m[<<"exp", k + 1>>]
                        ELSE IF ch \in Digits THEN m[<<"exp", k>>]
                        ELSE 0
                  [] OTHER ->
                        IF ch \in Digits
                        THEN LET rest == m[<<"exp", k + 1>>] IN IF rest = 0 THEN k + 1 ELSE rest
                        ELSE 0
    IN  IF i >= 1 /\ i <= Len(s) THEN m[<<"sign", i>>] ELSE 0

NoString == [ok |-> FALSE, val |-> <<>>, next |-> 0]
NoValue == [ok |-> FALSE, val |-> JsUndefined, next |-> 0]

\* the character an escape \c stands for ("" when \c is no escape of JSON)
Unescaped(c) ==
    CASE c = "\"" -> "\""
      [] c = BS -> BS
      [] c = "/" -> "/"
      [] c = "n" -> "\n"
      [] c = "t" -> "\t"
      [] OTHER -> ""

\* a string literal whose opening quote stands at i: its characters and the
\* position after its closing quote. A raw line break or tab inside it, an
\* unknown escape or a missing closing quote is an error.
ParseString(s, i) ==
    LET n == Len(s)
        f[k \in (i + 1)..(n + 1)] ==
            IF k > n THEN NoString
            ELSE IF s[k] = s[i] THEN [ok |-> TRUE, val |-> <<>>, next |-> k + 1]
            ELSE IF s[k] \in {"\n", "\t"} THEN NoString
            ELSE IF s[k] = BS
                 THEN IF k + 1 > n \/ Unescaped(s[k + 1]) = "" THEN NoString
                      ELSE LET r == f[k + 2]
                           IN  IF r.ok
                               THEN [ok |-> TRUE, val |-> <<Unescaped(s[k + 1])>> \o r.val,
                                     next |-> r.next]
                               ELSE NoString
                 ELSE LET r == f[k + 1]
                      IN  IF r.ok
                          THEN [ok |-> TRUE, val |-> <<s[k]>> \o r.val, next |-> r.next]
                          ELSE NoString
    IN  f[i + 1]

WordNull == <<"n", "u", "l", "l">>
WordTrue == <<"t", "r", "u", "e">>
WordFalse == <<"f", "a", "l", "s", "e">>
WordPyNone == <<"N", "o", "n", "e">>
WordPyTrue == <<"T", "r", "u", "e">>
WordPyFalse == <<"F", "a", "l", "s", "e">>

\* the quotes that open a string: JSON has the double quote only
Quotes(mode) == IF mode = "json" THEN {"\""} ELSE {"\"", "'"}

\* obj[key] = val for each member in turn
Members(raw) ==
    LET g[k \in 0..Len(raw)] ==
            IF k = 0 THEN <<>> ELSE PutEntry(g[k - 1], raw[k].s, raw[k].items[1])
    IN  g[Len(raw)]

\* The whole of s is one value of the grammar mode: "json" (JSON.parse), "js" (a
\* JavaScript literal: strings in either quote) or "py" (the Python literal:
\* strings in either quote, None/True/False its constants). In "js" the words
\* None, True and False are free identifiers, whose evaluation throws as a
\* syntax error does: no value.
\* P[<<"value", a>>] is the value that starts at a, P[<<"elements", a>>] the
\* elements of an array from a to its "]", P[<<"members", a>>] the members
\* "key": value of an object from a to its "}"; a is past the white space.
ParseWhole(mode, s) ==
    LET n == Len(s)
        P[x \in {"value", "elements", "members"} \X (1..(n + 2))] ==
            LET a == x[2]
                c == CharAt(s, a)
            IN  CASE x[1] = "elements" ->
                    LET r == P[<<"value", a>>]
                        k == SkipSpaces(s, r.next)
                    IN  IF ~r.ok THEN NoValue
                        ELSE IF CharAt(s, k) = ","
                             THEN LET rest == P[<<"elements", SkipSpaces(s, k + 1)>>]
                                  IN  IF rest.ok
                                      THEN [ok |-> TRUE, val |-> JsArr(<<r.val>> \o rest.val.items),
                                            next |-> rest.next]
                                      ELSE NoValue
                        ELSE IF CharAt(s, k) = "]"
                             THEN [ok |-> TRUE, val |-> JsArr(<<r.val>>), next |-> k + 1]
                        ELSE NoValue
                  [] x[1] = "members" ->
                    LET key == IF c \in Quotes(mode) THEN ParseString(s, a) ELSE NoString
                        colon == SkipSpaces(s, key.next)
                    IN  IF ~key.ok \/ CharAt(s, colon) # ":" THEN NoValue
                        ELSE LET r == P[<<"value", SkipSpaces(s, colon + 1)>>]
                                 k == SkipSpaces(s, r.next)
                             IN  IF ~r.ok THEN NoValue
                                 ELSE IF CharAt(s, k) = ","
                                      THEN LET rest == P[<<"members", SkipSpaces(s, k + 1)>>]
                                           IN  IF rest.ok
                                               THEN [ok |-> TRUE,
                                                     val |-> JsObj(<<JsEntry(key.val, r.val)>>
                                                                       \o rest.val.items),
                                                     next |-> rest.next]
                                               ELSE NoValue
                                 ELSE IF CharAt(s, k) = "}"
                                      THEN [ok |-> TRUE, val |-> JsObj(<<JsEntry(key.val, r.val)>>),
                                            next |-> k + 1]
                                 ELSE NoValue
                  [] OTHER ->
                    IF c = "[" THEN
                        IF CharAt(s, SkipSpaces(s, a + 1)) = "]"
                        THEN [ok |-> TRUE, val |-> JsArr(<<>>), next |-> SkipSpaces(s, a + 1) + 1]
                        ELSE P[<<"elements", SkipSpaces(s, a + 1)>>]
                    ELSE IF c = "{" THEN
                        IF CharAt(s, SkipSpaces(s, a + 1)) = "}"
                        THEN [ok |-> TRUE, val |-> JsObj(<<>>), next |-> SkipSpaces(s, a + 1) + 1]
                        ELSE LET r == P[<<"members", SkipSpaces(s, a + 1)>>]
                             IN  IF r.ok
                                 THEN [ok |-> TRUE, val |-> JsObj(Members(r.val.items)),
                                       next |-> r.next]
                                 ELSE NoValue
                    ELSE IF c \in Quotes(mode) THEN
                        LET r == ParseString(s, a)
                        IN  IF r.ok THEN [ok |-> TRUE, val |-> JsStr(r.val), next |-> r.next]
                            ELSE NoValue
                    ELSE IF NumberEnd(s, a) # 0 THEN
                        [ok |-> TRUE, val |-> JsNum(Slice(s, a, NumberEnd(s, a))),
                         next |-> NumberEnd(s, a)]
                    ELSE IF IsPrefixAt(WordNull, s, a) THEN
                        [ok |-> TRUE, val |-> JsNull, next |-> a + 4]
                    ELSE IF IsPrefixAt(WordTrue, s, a) THEN
                        [ok |-> TRUE, val |-> JsTrue, next |-> a + 4]
                    ELSE IF IsPrefixAt(WordFalse, s, a) THEN
                        [ok |-> TRUE, val |-> JsFalse, next |-> a + 5]
                    ELSE IF mode = "py" /\ IsPrefixAt(WordPyNone, s, a) THEN
                        [ok |-> TRUE, val |-> JsNull, next |-> a + 4]
                    ELSE IF mode = "py" /\ IsPrefixAt(WordPyTrue, s, a) THEN
                        [ok |-> TRUE, val |-> JsTrue, next |-> a + 4]
                    ELSE IF mode = "py" /\ IsPrefixAt(WordPyFalse, s, a) THEN
                        [ok |-> TRUE, val |-> JsFalse, next |-> a + 5]
                    ELSE NoValue
        whole == P[<<"value", SkipSpaces(s, 1)>>]
    IN  IF whole.ok /\ SkipSpaces(s, whole.next) > n THEN whole ELSE NoValue

\* JSON.parse(s): [ok, val]; ok = FALSE stands for the SyntaxError thrown
JsonParse(s) == ParseWhole("json", s)

\* JSON.stringify of a string
JsonStringify(val) ==
    <<"\"">> \o Flatten([k \in 1..Len(val) |->
        IF val[k] = "\"" THEN <<BS, "\"">>
        ELSE IF val[k] = BS THEN <<BS, BS>>
        ELSE IF val[k] = "\n" THEN <<BS, "n">>
        ELSE IF val[k] = "\t" THEN <<BS, "t">>
        ELSE <<val[k]>>]) \o <<"\"">>

----------------------------------------------------------------------------
(* parseCandidates (lines 87-110)                                          *)

Letters ==
    { "a", "b", "c", "d", "e", "f", "g", "h", "i", "j", "k", "l", "m",
      "n", "o", "p", "q", "r", "s", "t", "u", "v", "w", "x", "y", "z",
      "A", "B", "C", "D", "E", "F", "G", "H", "I", "J", "K", "L", "M",
      "N", "O", "P", "Q", "R", "S", "T", "U", "V", "W", "X", "Y", "Z" }

\* \w of a pattern
IsWordChar(c) == c \in Letters \/ c \in Digits \/ c = "_"

\* /\bword\b/ anchored at i
WordAt(word, s, i) ==
    /\ IsPrefixAt(word, s, i)
    /\ ~IsWordChar(CharAt(s, i - 1))
    /\ ~IsWordChar(CharAt(s, i + Len(word)))

\* s.replace(/\bword\b/g, repl)
ReplaceWord(s, word, repl) ==
    LET n == Len(s)
        f[i \in 1..(n + 1)] ==
            IF i > n THEN <<>>
            ELSE IF WordAt(word, s, i) THEN repl \o f[i + Len(word)]
            ELSE <<s[i]>> \o f[i + 1]
    IN  f[1]

\* line 95: None, True, False to null, true, false
ReplacePyConstants(s) ==
    ReplaceWord(ReplaceWord(ReplaceWord(s, WordPyNone, WordNull), WordPyTrue, WordTrue),
                WordPyFalse, WordFalse)

NoMatch == [ok |-> FALSE, lead |-> 0, p |-> 0, q |-> 0, stop |-> 0]

\* \s*'([^'\n]*?)'\s* from position k on: p and q are the positions of the two
\* quotes, stop the first position after the white space that follows.
\* m[<<st, at, p, q>>] reads s[at] in state st of the pattern.
QuotedRun(s, k) ==
    LET n == Len(s)
        m[x \in {"open", "body", "after"} \X (1..(n + 2)) \X (0..n) \X (0..n)] ==
            LET at == x[2]
                ch == CharAt(s, at)
            IN  CASE x[1] = "open" ->
                        IF IsSpace(ch) THEN m[<<"open", at + 1, 0, 0>>]
                        ELSE IF ch = "'" THEN m[<<"body", at + 1, at, 0>>]
                        ELSE NoMatch
                  [] x[1] = "body" ->
                        IF ch = "'" THEN m[<<"after", at + 1, x[3], at>>]
                        ELSE IF ch \in {"\n", "EOF"} THEN NoMatch
                        ELSE m[<<"body", at + 1, x[3], 0>>]
                  [] OTHER ->
                        IF IsSpace(ch) THEN m[<<"after", at + 1, x[3], x[4]>>]
                        ELSE [ok |-> TRUE, lead |-> k, p |-> x[3], q |-> x[4], stop |-> at]
    IN  IF k >= 1 /\ k <= n THEN m[<<"open", k, 0, 0>>] ELSE NoMatch

\* /([\{,]\s*)'([^'\n]*?)'\s*:/ anchored at i: p and q the two quotes, stop the
\* exclusive end
KeyMatch(s, i) ==
    LET m == QuotedRun(s, i + 1)
    IN  IF s[i] \in {"{", ","} /\ m.ok /\ CharAt(s, m.stop) = ":"
        THEN [m EXCEPT !.stop = m.stop + 1]
        ELSE NoMatch

\* line 96: s.replace(/([\{,]\s*)'([^'\n]*?)'\s*:/g, '$1"$2":')
RewriteKeys(s) ==
    LET n == Len(s)
        f[i \in 1..(n + 1)] ==
            IF i > n THEN <<>>
            ELSE LET m == KeyMatch(s, i)
                 IN  IF m.ok
                     THEN Slice(s, i, m.p) \o <<"\"">> \o Slice(s, m.p + 1, m.q)
                              \o <<"\"", ":">> \o f[m.stop]
                     ELSE <<s[i]>> \o f[i + 1]
    IN  f[1]

\* /:\s*'([^'\n]*?)'(\s*[\},])/ anchored at i
ValueMatch(s, i) ==
    LET m == QuotedRun(s, i + 1)
    IN  IF s[i] = ":" /\ m.ok /\ CharAt(s, m.stop) \in {"}", ","}
        THEN [m EXCEPT !.stop = m.stop + 1]
        ELSE NoMatch

\* line 97: (_, val, tail) => ': ' + JSON.stringify(val) + tail
RewriteValues(s) ==
    LET n == Len(s)
        f[i \in 1..(n + 1)] ==
            IF i > n THEN <<>>
            ELSE LET m == ValueMatch(s, i)
                 IN  IF m.ok
                     THEN <<":", " ">> \o JsonStringify(Slice(s, m.p + 1, m.q))
                              \o Slice(s, m.q + 1, m.stop) \o f[m.stop]
                     ELSE <<s[i]>> \o f[i + 1]
    IN  f[1]

\* /(\[|\s,)\s*'([^'\n]*?)'\s*(?=(,|\]))/ anchored at i; lead is the exclusive
\* end of the first group
ElementMatch(s, i) ==
    LET m == QuotedRun(s, IF s[i] = "[" THEN i + 1
                          ELSE IF IsSpace(s[i]) /\ CharAt(s, i + 1) = "," THEN i + 2
                          ELSE 0)
    IN  IF m.ok /\ CharAt(s, m.stop) \in {",", "]"} THEN m ELSE NoMatch

\* line 98: (_, lead, val) => lead + JSON.stringify(val)
RewriteElements(s) ==
    LET n == Len(s)
        f[i \in 1..(n + 1)] ==
            IF i > n THEN <<>>
            ELSE LET m == ElementMatch(s, i)
                 IN  IF m.ok
                     THEN Slice(s, i, m.lead) \o JsonStringify(Slice(s, m.p + 1, m.q))
                              \o f[m.stop]
                     ELSE <<s[i]>> \o f[i + 1]
    IN  f[1]

\* lines 95-98: the text handed to the second JSON.parse
LenientRewrite(text) ==
    RewriteElements(RewriteValues(RewriteKeys(ReplacePyConstants(text))))

\* line 103: a character of the allow-list (the letters the pattern spells out
\* are among A-Za-z; ‐-⁯ holds the bullet)
AllowedChar(c) ==
    \/ IsSpace(c)
    \/ c \in Letters \/ c \in Digits
    \/ c \in {"[", "]", "{", "}", ":", ",", ".", "-", "+", "\"", "'", "&", ";", "(", ")", "_"}
    \/ c = BULLET

\* line 103: the test of the whole text
AllowListed(text) == \A k \in 1..Len(text) : AllowedChar(text[k])

\* (function(){for(;;);})() : an expression of allowed characters that never returns
LoopText ==
    << "(", "f", "u", "n", "c", "t", "i", "o", "n", "(", ")", "{", "f", "o", "r", "(",
       ";", ";", ")", ";", "}", ")", "(", ")" >>

\* line 104: Function('"use strict";return (' + text + ')')(), for the texts the
\* inputs hold: a literal gives its value; a literal that names None, True or
\* False throws a ReferenceError when evaluated and a text that is no
\* expression a SyntaxError; the call of the endless loop never returns.
JsEval(text) ==
    LET r == ParseWhole("js", text)
    IN  IF text = LoopText THEN [outcome |-> "hangs", val |-> JsUndefined]
        ELSE IF r.ok THEN [outcome |-> "value", val |-> r.val]
        ELSE [outcome |-> "throws", val |-> JsUndefined]

\* An argument of parseCandidates is [kind, val, text]: kind "array" (val the
\* array), "null", "undefined", "other" (val a value that is neither: a number,
\* an object) or "string" (text its characters).
\* parseCandidates(raw) is [returns, line, val]: returns = FALSE when the call
\* never returns, line the line of the return statement taken, val its value.
Returned(line, val) == [returns |-> TRUE, line |-> line, val |-> val]

\* line 90: typeof raw === 'string' ? raw.trim() : ''
TrimmedText(raw) == IF raw.kind = "string" THEN Trim(raw.text) ELSE <<>>

\* parseCandidates(raw), text and s being the values its variables text (line
\* 90) and s (line 98) take
ParseCandidates(raw, text, s) ==
    LET strict == JsonParse(text)
        lenient == JsonParse(s)
        ev == JsEval(text)
    IN  IF raw.kind = "array" THEN Returned(88, raw.val)
        ELSE IF raw.kind \in {"null", "undefined"} THEN Returned(89, JsArr(<<>>))
        ELSE IF text = <<>> THEN Returned(91, JsArr(<<>>))
        ELSE IF strict.ok THEN Returned(93, strict.val)
        ELSE IF lenient.ok THEN Returned(99, lenient.val)
        ELSE IF ~AllowListed(text) \/ ev.outcome = "throws" THEN Returned(109, JsArr(<<>>))
        ELSE IF ev.outcome = "hangs"
             THEN [returns |-> FALSE, line |-> 104, val |-> JsUndefined]
        ELSE Returned(104, ev.val)

\* the value before the call
NoCandidates == [returns |-> FALSE, line |-> 0, val |-> JsUndefined]

----------------------------------------------------------------------------
(* displayReferences (lines 308-343)                                       *)

\* !v
Falsy(v) ==
    \/ v.t \in {"undefined", "null"}
    \/ v = JsFalse
    \/ v.t = "str" /\ v.s = <<>>
    \/ v.t = "num" /\ \A k \in 1..Len(v.s) :
            v.s[k] \in {"0", ".", "-"} \/ \E e \in 1..(k - 1) : v.s[e] \in {"e", "E"}

KeyLength == <<"l", "e", "n", "g", "t", "h">>
KeyReference == <<"r", "e", "f", "e", "r", "e", "n", "c", "e">>
KeyTitle == <<"t", "i", "t", "l", "e">>
KeyConfidence == <<"c", "o", "n", "f", "i", "d", "e", "n", "c", "e">>
KeyScore == <<"s", "c", "o", "r", "e">>
KeyReasoning == <<"r", "e", "a", "s", "o", "n", "i", "n", "g">>
TitleNA == <<"N", "/", "A">>

\* v.length === 0
HasLengthZero(v) ==
    \/ v.t = "arr" /\ v.items = <<>>
    \/ v.t = "obj" /\ GetProp(v, KeyLength).t = "num" /\ GetProp(v, KeyLength).s = <<"0">>

\* a || b
OrElse(a, b) == IF Falsy(a) THEN b ELSE a
\* a ?? b
Coalesce(a, b) == IF a.t \in {"undefined", "null"} THEN b ELSE a

\* A number is [k, n, d]: k = "nan", "inf" or "fin", and for a finite one the
\* value n / d with d a power of ten (the numbers of the dataset are decimals
\* written without exponent).
NumNaN == [k |-> "nan", n |-> 0, d |-> 1]
NumInf(sign) == [k |-> "inf", n |-> sign, d |-> 1]
NumFin(n, d) == [k |-> "fin", n |-> n, d |-> d]

DigitVal(c) ==
    CASE c = "0" -> 0 [] c = "1" -> 1 [] c = "2" -> 2 [] c = "3" -> 3 [] c = "4" -> 4
      [] c = "5" -> 5 [] c = "6" -> 6 [] c = "7" -> 7 [] c = "8" -> 8 [] OTHER -> 9

DigitChar(v) ==
    CASE v = 0 -> "0" [] v = 1 -> "1" [] v = 2 -> "2" [] v = 3 -> "3" [] v = 4 -> "4"
      [] v = 5 -> "5" [] v = 6 -> "6" [] v = 7 -> "7" [] v = 8 -> "8" [] OTHER -> "9"

\* the value of a run of digits
DigitsValue(ds) ==
    LET f[k \in 0..Len(ds)] == IF k = 0 THEN 0 ELSE f[k - 1] * 10 + DigitVal(ds[k])
    IN  f[Len(ds)]

TextInfinity == <<"I", "n", "f", "i", "n", "i", "t", "y">>

\* the value of the digits u around the point at dot (Len(u) + 1 if none), NaN
\* if u is no \d+(\.\d*)?|\.\d+
UnsignedNumber(sign, u, dot) ==
    IF /\ Len(u) > (IF dot > Len(u) THEN 0 ELSE 1)
       /\ \A k \in 1..Len(u) : k # dot => u[k] \in Digits
    THEN NumFin(sign * DigitsValue(SubSeq(u, 1, dot - 1) \o SubSeq(u, dot + 1, Len(u))),
                10 ^ (IF dot > Len(u) THEN 0 ELSE Len(u) - dot))
    ELSE NumNaN

\* the value of a text without its sign
SignedNumber(sign, u) ==
    IF u = TextInfinity THEN NumInf(sign)
    ELSE UnsignedNumber(sign, u, MinOf({k \in 1..Len(u) : u[k] = "."} \cup {Len(u) + 1}))

\* the value of a trimmed text
TrimmedNumber(body) ==
    IF body = <<>> THEN NumFin(0, 1)
    ELSE IF body[1] = "-" THEN SignedNumber(-1, SubSeq(body, 2, Len(body)))
    ELSE IF body[1] = "+" THEN SignedNumber(1, SubSeq(body, 2, Len(body)))
    ELSE SignedNumber(1, body)

\* Number(s) of a string, line 114: white space is trimmed, '' is 0, a decimal
\* literal [+-]?(\d+(\.\d*)?|\.\d+) is its value, [+-]?Infinity is infinite and
\* any other text is NaN
StringToNumber(s) == CHOOSE x \in {TrimmedNumber(body) : body \in {Trim(s)}} : TRUE

\* how many digits a natural number has
NatWidth(v) == IF v = 0 THEN 1 ELSE CHOOSE w \in 1..18 : 10 ^ (w - 1) <= v /\ v < 10 ^ w

\* the decimal digits of a natural number
NatToString(v) ==
    [k \in 1..NatWidth(v) |-> DigitChar((v \div (10 ^ (NatWidth(v) - k))) % 10)]

\* the digits of the fraction fr / 10^width without the trailing zeros
FractionDigits(fr, width) ==
    SubSeq([k \in 1..width |-> DigitChar((fr \div (10 ^ (width - k))) % 10)], 1,
           CHOOSE k \in 0..width :
                /\ k > 0 => (fr \div (10 ^ (width - k))) % 10 # 0
                /\ \A j \in (k + 1)..width : (fr \div (10 ^ (width - j))) % 10 = 0)

\* the text of the number a / d, a >= 0
DecimalText(a, d) ==
    NatToString(a \div d)
        \o (IF a % d = 0 THEN <<>> ELSE <<".">> \o FractionDigits(a % d, NatWidth(d) - 1))

\* String(x) of a finite number: the integer part, and the fraction without
\* its trailing zeros if there is one (-0 is written 0)
NumberToString(x) ==
    IF x.n < 0 THEN <<"-">> \o DecimalText(-x.n, x.d) ELSE DecimalText(x.n, x.d)

TextUndefined == <<"u", "n", "d", "e", "f", "i", "n", "e", "d">>
TextObject ==
    <<"[", "o", "b", "j", "e", "c", "t", " ", "O", "b", "j", "e", "c", "t", "]">>

\* String(v) of a value that is no array
ScalarToString(v) ==
    CASE v.t = "str" -> v.s
      [] v.t = "num" -> CHOOSE r \in {NumberToString(x) : x \in {StringToNumber(v.s)}} : TRUE
      [] v.t = "bool" -> v.s
      [] v.t = "null" -> WordNull
      [] v.t = "undefined" -> TextUndefined
      [] OTHER -> TextObject

\* String(v), lines 115 and 119: an array is its elements joined with ',', null
\* and undefined elements being empty (the arrays of the dataset hold no array)
JsString(v) ==
    IF v.t = "arr"
    THEN Flatten([k \in 1..Len(v.items) |->
            (IF k = 1 THEN <<>> ELSE <<",">>)
                \o (IF v.items[k].t \in {"null", "undefined"} THEN <<>>
                    ELSE ScalarToString(v.items[k]))])
    ELSE ScalarToString(v)

\* Number(c), line 114
ToNumber(c) ==
    CASE c.t = "num" -> StringToNumber(c.s)
      [] c.t = "str" -> StringToNumber(c.s)
      [] c.t = "bool" -> IF c = JsTrue THEN NumFin(1, 1) ELSE NumFin(0, 1)
      [] c.t = "null" -> NumFin(0, 1)
      [] c.t = "undefined" -> NumNaN
      [] OTHER -> StringToNumber(JsString(c))

\* Math.round(num * 100), line 116: the nearest integer, a tie going up (the
\* product is exact, or no tie, for the numbers of the dataset)
RoundTimes100(x) == (2 * 100 * x.n + x.d) \div (2 * x.d)

\* String of an integer
IntText(v) == IF v < 0 THEN <<"-">> \o NatToString(-v) ELSE NatToString(v)
IntToString(w) == CHOOSE r \in {IntText(v) : v \in {w}} : TRUE

\* the value formatConfidence returns with `num < 1` in the place of `num <= 1`
FormattedBelowOne(c, num) ==
    IF num.k # "fin" THEN JsString(c)
    ELSE IF num.n < num.d THEN IntToString(RoundTimes100(num)) \o <<"%">>
    ELSE NumberToString(num)

\* lines 115-116: the value formatConfidence returns, num being Number(c)
Formatted(c, num) ==
    IF num.k # "fin" THEN JsString(c)
    ELSE IF num.n <= num.d THEN IntToString(RoundTimes100(num)) \o <<"%">>
    ELSE NumberToString(num)

\* formatConfidence(c), lines 113-117
FormatConfidence(c) == CHOOSE r \in {Formatted(c, num) : num \in {ToNumber(c)}} : TRUE

TagBold == <<"<", "b", ">">>
TagBoldEnd == <<"<", "/", "b", ">">>
TagConfidence ==
    <<"<", "d", "i", "v", " ", "c", "l", "a", "s", "s", "=", "\"", "c", "o", "n",
      "f", "i", "d", "e", "n", "c", "e", "\"", ">", "L", "L", "M", " ", "C", "o",
      "n", "f", "i", "d", "e", "n", "c", "e", ":", " ">>
TagDivEnd == <<"<", "/", "d", "i", "v", ">">>
TagReasoning ==
    <<"<", "d", "e", "t", "a", "i", "l", "s", " ", "c", "l", "a", "s", "s", "=",
      "\"", "r", "e", "a", "s", "o", "n", "i", "n", "g", "\"", ">", "<", "s", "u",
      "m", "m", "a", "r", "y", ">", "R", "e", "a", "s", "o", "n", "i", "n", "g",
      "<", "/", "s", "u", "m", "m", "a", "r", "y", ">", "<", "d", "i", "v", ">">>
TagReasoningEnd ==
    <<"<", "/", "d", "i", "v", ">", "<", "/", "d", "e", "t", "a", "i", "l", "s",
      ">">>
\* the dash of line 325, one character
TextDash == <<"DASH">>

\* buildCard(title, confidence, reasoning), lines 322-329: the three pieces of
\* the markup of the card
BuildCard(title, confidence, reasoning) ==
    CHOOSE card \in
        {[titleHTML |-> TagBold \o EscapeHTML(JsString(title)) \o TagBoldEnd,
          hasConf |-> hasConf,
          confText |-> confText,
          confHTML |-> TagConfidence \o confText \o TagDivEnd,
          reasoningHTML |-> IF Falsy(reasoning) THEN <<>>
                            ELSE TagReasoning \o EscapeHTML(JsString(reasoning))
                                    \o TagReasoningEnd] :
            hasConf \in {~(\/ confidence = JsStr(<<>>)
                           \/ confidence.t \in {"null", "undefined"}
                           \/ confidence.t = "num" /\ ToNumber(confidence).k # "fin")},
            confText \in {IF ~(\/ confidence = JsStr(<<>>)
                               \/ confidence.t \in {"null", "undefined"}
                               \/ confidence.t = "num" /\ ToNumber(confidence).k # "fin")
                          THEN FormatConfidence(confidence) ELSE TextDash}} : TRUE

\* lines 331-339: the card of one candidate (reading a property of null or
\* undefined raises, line 334)
\* the arguments of buildCard and what it returns
Card(title, confidence, reasoning) ==
    CHOOSE card \in
        {[raised |-> FALSE, title |-> t, confidence |-> c, reasoning |-> r,
          html |-> BuildCard(t, c, r)] :
            t \in {title}, c \in {confidence}, r \in {reasoning}} : TRUE

\* no card: line 334 raised
NoCard ==
    [raised |-> TRUE, title |-> JsUndefined, confidence |-> JsUndefined,
     reasoning |-> JsUndefined,
     html |-> [titleHTML |-> <<>>, hasConf |-> FALSE, confText |-> <<>>,
               confHTML |-> <<>>, reasoningHTML |-> <<>>]]

CardOf(candidate) ==
    IF candidate.t = "str"
    THEN Card(candidate, JsStr(<<>>), JsStr(<<>>))
    ELSE IF candidate.t \in {"null", "undefined"}
    THEN NoCard
    ELSE LET ref == OrElse(GetProp(candidate, KeyReference), JsObj(<<>>))
         IN  Card(OrElse(OrElse(GetProp(ref, KeyTitle), GetProp(candidate, KeyTitle)),
                         JsStr(TitleNA)),
                  Coalesce(Coalesce(GetProp(candidate, KeyConfidence),
                                    GetProp(candidate, KeyScore)), JsStr(<<>>)),
                  OrElse(GetProp(candidate, KeyReasoning), JsStr(<<>>)))

\* lines 311-342 once parseCandidates has returned candidates: [outcome, cards].
\* "empty" is the 'No candidate references found.' display, "cards" one card per
\* candidate, "raised" a TypeError out of displayReferences: candidates.forEach
\* is not a function (line 318), or a candidate is null (line 334); the cards
\* appended before the exception stay.
RenderCandidates(candidates) ==
    LET cards == [k \in 1..Len(candidates.items) |-> CardOf(candidates.items[k])]
        bad == {k \in 1..Len(cards) : cards[k].raised}
    IN  IF Falsy(candidates) \/ HasLengthZero(candidates)
        THEN [outcome |-> "empty", cards |-> <<>>]
        ELSE IF candidates.t # "arr" THEN [outcome |-> "raised", cards |-> <<>>]
        ELSE IF bad # {} THEN [outcome |-> "raised", cards |-> SubSeq(cards, 1, MinOf(bad) - 1)]
        ELSE [outcome |-> "cards", cards |-> cards]

\* the display before the call
NoView == [outcome |-> "none", cards |-> <<>>]

----------------------------------------------------------------------------
(* The address fragment: updateHash (lines 216-224), parseHash (206-214)   *)

\* null, as the value of an id; '' is <<>>
NullId == <<"NULL">>

\* !!x of an id
Truthy(x) == x # NullId /\ x # <<>>

\* x || ''
OrEmpty(x) == IF Truthy(x) THEN x ELSE <<>>

\* the characters encodeURIComponent leaves as they are
Unreserved == Letters \cup Digits \cup {"-", "_", ".", "!", "~", "*", "'", "(", ")"}

\* the two hexadecimal digits of the code of a character
HexCode(c) ==
    CASE c = " " -> <<"2", "0">>
      [] c = "\"" -> <<"2", "2">>
      [] c = "#" -> <<"2", "3">>
      [] c = "%" -> <<"2", "5">>
      [] c = "&" -> <<"2", "6">>
      [] c = "+" -> <<"2", "B">>
      [] c = "/" -> <<"2", "F">>
      [] c = "<" -> <<"3", "C">>
      [] c = "=" -> <<"3", "D">>
      [] c = ">" -> <<"3", "E">>
      [] c = "?" -> <<"3", "F">>
      [] c = "A" -> <<"4", "1">>
      [] c = "a" -> <<"6", "1">>
      [] OTHER -> <<"0", "0">>

\* the characters whose code HexCode knows
Coded == {" ", "\"", "#", "%", "&", "+", "/", "<", "=", ">", "?", "A", "a"}

\* encodeURI(s) in the place of encodeURIComponent(s): the reserved characters stay
EncodeURI(s) ==
    Flatten([k \in 1..Len(s) |->
        IF s[k] \in Unreserved \cup {";", "/", "?", ":", "@", "&", "=", "+", "$", ",", "#"}
        THEN <<s[k]>> ELSE <<"%">> \o HexCode(s[k])])

\* encodeURIComponent(s)
EncodeURIComponent(s) ==
    Flatten([k \in 1..Len(s) |->
        IF s[k] \in Unreserved THEN <<s[k]>> ELSE <<"%">> \o HexCode(s[k])])

\* line 219: `#paper=${p}&artifact=${a}`
HashPaper == <<"#", "p", "a", "p", "e", "r", "=">>
HashArtifact == <<"&", "a", "r", "t", "i", "f", "a", "c", "t", "=">>
KeyPaper == <<"p", "a", "p", "e", "r">>
KeyArtifact == <<"a", "r", "t", "i", "f", "a", "c", "t">>

\* lines 217-219: newHash
NewHash(paperId, artifactId) ==
    HashPaper \o EncodeURIComponent(OrEmpty(paperId))
        \o HashArtifact \o EncodeURIComponent(OrEmpty(artifactId))

\* the character two hexadecimal digits stand for ("" if HexCode knows none)
FromHex(h1, h2) ==
    IF \E c \in Coded : HexCode(c) = <<h1, h2>>
    THEN CHOOSE c \in Coded : HexCode(c) = <<h1, h2>>
    ELSE ""

\* the decoding URLSearchParams applies to a name or a value: + is a space, %XX
\* the character of that code, a % that starts no code stays
DecodeComponent(s) ==
    LET n == Len(s)
        f[i \in 1..(n + 1)] ==
            IF i > n THEN <<>>
            ELSE IF s[i] = "+" THEN <<" ">> \o f[i + 1]
            ELSE IF s[i] = "%" /\ i + 2 <= n /\ FromHex(s[i + 1], s[i + 2]) # ""
                 THEN <<FromHex(s[i + 1], s[i + 2])>> \o f[i + 3]
            ELSE <<s[i]>> \o f[i + 1]
    IN  f[1]

\* new URLSearchParams(q).get(key): the pairs are the pieces between the "&",
\* a pair's name ends at its first "="; the decoded value of the first pair so
\* named, null if there is none. g[i] looks at the piece that starts at i.
SearchParam(q, key) ==
    LET n == Len(q)
        amp(i) == IF IndexOfFrom(<<"&">>, q, i) = 0 THEN n + 1 ELSE IndexOfFrom(<<"&">>, q, i)
        g[i \in 1..(n + 2)] ==
            IF i > n THEN NullId
            ELSE LET e == amp(i)
                     eq == IndexOfFrom(<<"=">>, Slice(q, i, e), 1)
                 IN  IF e > i /\ eq = 0 /\ DecodeComponent(Slice(q, i, e)) = key THEN <<>>
                     ELSE IF eq # 0 /\ DecodeComponent(Slice(q, i, i + eq - 1)) = key
                          THEN DecodeComponent(Slice(q, i + eq, e))
                     ELSE g[e + 1]
    IN  g[IF n >= 1 /\ q[1] = "?" THEN 2 ELSE 1]

\* parseHash() when window.location.hash is fragment
ParseHash(fragment) ==
    IF Len(fragment) <= 1 THEN [paperId |-> NullId, artifactId |-> NullId]
    ELSE [paperId |-> SearchParam(Tail(fragment), KeyPaper),
          artifactId |-> SearchParam(Tail(fragment), KeyArtifact)]

----------------------------------------------------------------------------
(* Selection and rendering: displayArtifact (226-278), updateNavButtons    *)
(* (345-351)                                                               *)

\* A paper is [id, artifacts]; an artifact is [id, refs], refs telling what
\* displayReferences(0) does with its first query: "none" (the artifact has no
\* query), "ok" (it returns) or "raises" (it throws, as for a predicted_candidates
\* of '{}').

\* papers.findIndex(p => p.id === id) + 1: 0 if there is none
FindIndex(items, id) ==
    LET c == {k \in 1..Len(items) : items[k].id = id}
    IN  IF c = {} THEN 0 ELSE MinOf(c)

\* items[0] ? items[0].id : null
FirstId(items) == IF Len(items) > 0 /\ Truthy(items[1].id) THEN items[1].id ELSE NullId

\* What the page shows: the paper whose title stands in paperTitle, the artifact
\* whose text stands in artifactText, the state of the references ("none" for
\* 'No references for this artifact.', "cards", "raised" when displayReferences
\* threw), whether the Next Paper button exists, the disabled marks of the two
\* artifact buttons, and whether the title reads 'Failed to load data'.
EmptyDom ==
    [paper |-> NullId, artifact |-> NullId, refs |-> "none", controls |-> FALSE,
     prevDisabled |-> FALSE, nextDisabled |-> FALSE, failed |-> FALSE]

\* updateHash() when window.location.hash is fragment: history.replaceState
\* replaces the fragment of the current entry (lines 220-222), no entry is
\* pushed and no hashchange event is fired
UpdateHash(fragment, paperId, artifactId) ==
    [hash |-> NewHash(paperId, artifactId), pushed |-> FALSE, fired |-> FALSE]

\* updateNavButtons() on the dom d
UpdateNavButtons(ps, paperId, artifactId, d) ==
    LET pi == FindIndex(ps, paperId)
    IN  IF pi = 0 THEN d
        ELSE [d EXCEPT
                !.prevDisabled = FindIndex(ps[pi].artifacts, artifactId) - 1 <= 0,
                !.nextDisabled = FindIndex(ps[pi].artifacts, artifactId) - 1
                                    >= Len(ps[pi].artifacts) - 1]

\* displayArtifact() with the selection (paperId, artifactId), the fragment
\* and the dom d: the new fragment and dom, and what happened: rendered (the
\* guard of line 227 passed), lookup (whether lines 229-230 found the paper
\* and the artifact), raised (an exception left the function: line 230 for a
\* paper not found, line 257 for an artifact not found, line 268 out of
\* displayReferences), pushed and fired as updateHash left them.
DisplayArtifact(ps, paperId, artifactId, fragment, d) ==
    LET pi == FindIndex(ps, paperId)
        ai == IF pi = 0 THEN 0 ELSE FindIndex(ps[pi].artifacts, artifactId)
        u == UpdateHash(fragment, paperId, artifactId)
        titled == [d EXCEPT !.paper = paperId, !.controls = TRUE]
        texted == [titled EXCEPT !.artifact = artifactId]
    IN  IF ~Truthy(paperId) \/ ~Truthy(artifactId)
        THEN [hash |-> fragment, dom |-> d, rendered |-> FALSE, lookup |-> "none",
              raised |-> FALSE, pushed |-> FALSE, fired |-> FALSE]
        ELSE IF pi = 0
        THEN [hash |-> fragment, dom |-> d, rendered |-> TRUE, lookup |-> "no paper",
              raised |-> TRUE, pushed |-> FALSE, fired |-> FALSE]
        ELSE IF ai = 0
        THEN [hash |-> u.hash, dom |-> titled, rendered |-> TRUE, lookup |-> "no artifact",
              raised |-> TRUE, pushed |-> u.pushed, fired |-> u.fired]
        ELSE IF ps[pi].artifacts[ai].refs = "raises"
        THEN [hash |-> u.hash, dom |-> [texted EXCEPT !.refs = "raised"], rendered |-> TRUE,
              lookup |-> "found", raised |-> TRUE, pushed |-> u.pushed, fired |-> u.fired]
        ELSE [hash |-> u.hash,
              dom |-> UpdateNavButtons(ps, paperId, artifactId,
                        [texted EXCEPT !.refs = IF ps[pi].artifacts[ai].refs = "ok"
                                                THEN "cards" ELSE "none"]),
              rendered |-> TRUE, lookup |-> "found", raised |-> FALSE,
              pushed |-> u.pushed, fired |-> u.fired]

\* line 161
DEFAULT_PAPER_ID == <<"2", "3", "1", "0", ".", "0", "0", "7", "3", "6", "v", "2">>

\* InitialSelection falling back on the first paper without looking for the default id
InitialSelectionFirstPaper(ps, fragment) ==
    LET h == ParseHash(fragment)
        paperId == IF Truthy(h.paperId) /\ FindIndex(ps, h.paperId) # 0
                   THEN h.paperId ELSE ps[1].id
        pi == FindIndex(ps, paperId)
    IN  [paperId |-> paperId,
         artifactId |-> IF Truthy(h.artifactId) /\ pi # 0
                            /\ FindIndex(ps[pi].artifacts, h.artifactId) # 0
                        THEN h.artifactId
                        ELSE IF pi # 0 THEN FirstId(ps[pi].artifacts) ELSE NullId]

\* lines 160-167: the selection the load handler computes from the fragment
InitialSelection(ps, fragment) ==
    LET h == ParseHash(fragment)
        fallbackId == IF FindIndex(ps, DEFAULT_PAPER_ID) # 0 THEN DEFAULT_PAPER_ID ELSE ps[1].id
        paperId == IF Truthy(h.paperId) /\ FindIndex(ps, h.paperId) # 0
                   THEN h.paperId ELSE fallbackId
        pi == FindIndex(ps, paperId)
    IN  [paperId |-> paperId,
         artifactId |-> IF Truthy(h.artifactId) /\ pi # 0
                            /\ FindIndex(ps[pi].artifacts, h.artifactId) # 0
                        THEN h.artifactId
                        ELSE IF pi # 0 THEN FirstId(ps[pi].artifacts) ELSE NullId]

\* HashSelection taking the artifact of the fragment without looking for it in
\* the paper
HashSelectionAnyArtifact(ps, fragment) ==
    LET hh == ParseHash(fragment)
        pi == FindIndex(ps, hh.paperId)
    IN  IF ~Truthy(hh.paperId) \/ pi = 0
        THEN [accepted |-> FALSE, paperId |-> NullId, artifactId |-> NullId]
        ELSE [accepted |-> TRUE, paperId |-> hh.paperId,
              artifactId |-> IF Truthy(hh.artifactId) THEN hh.artifactId
                             ELSE FirstId(ps[pi].artifacts)]

\* lines 172-178: the selection the hashchange listener computes, accepted =
\* FALSE when it returns at line 173
HashSelection(ps, fragment) ==
    LET hh == ParseHash(fragment)
        pi == FindIndex(ps, hh.paperId)
    IN  IF ~Truthy(hh.paperId) \/ pi = 0
        THEN [accepted |-> FALSE, paperId |-> NullId, artifactId |-> NullId]
        ELSE [accepted |-> TRUE, paperId |-> hh.paperId,
              artifactId |-> IF Truthy(hh.artifactId)
                                  /\ FindIndex(ps[pi].artifacts, hh.artifactId) # 0
                             THEN hh.artifactId
                             ELSE FirstId(ps[pi].artifacts)]

----------------------------------------------------------------------------
(* Inputs: strings built from a few chunks of text                         *)

\* every sequence of at most n members of S
SeqsUpTo(S, n) == UNION {[1..k -> S] : k \in 0..n}

\* every string that is the concatenation of at most n chunks of S
Texts(S, n) == {Flatten(cs) : cs \in SeqsUpTo(S, n)}

MaxSegChunks == 4
MaxBrChunks == 3

\* plain text, HTML-sensitive characters and the four delimiter pairs
SegChunks ==
    { <<"$">>, OpenParen, CloseParen, OpenBracket, CloseBracket,
      <<"<">>, <<">">>, <<"&">>, <<"'">>, <<"a">> }

\* line breaks: typed by the user, the sentinel's text, and \item
BrChunks ==
    { LitBr, <<"<", "b", "r", " ", "/", ">">>, SENTINEL, LitItem,
      <<" ">>, <<"$">>, <<"<">>, <<"a">> }

MaxEnvChunks == 4
MaxRefChunks == 4

\* the example of the specification: \begin{equation}E=mc^2\label{eq:1}\end{equation}
TagBeginEquation == LitBegin \o EnvEquation \o <<"}">>
TagEndEquation == LitEnd \o EnvEquation \o <<"}">>
TextEmc2 == <<"E", "=", "m", "c", "^", "2">>
TextLabelEq1 == <<BS, "l", "a", "b", "e", "l", "{", "e", "q", ":", "1", "}">>
ExampleEquation == TagBeginEquation \o TextEmc2 \o TextLabelEq1 \o TagEndEquation

\* equation and align blocks, starred or not, with content, a label and delimiters
EnvChunks ==
    { TagBeginEquation, LitBegin \o EnvAlign \o <<"*", "}">>,
      TagEndEquation, LitEnd \o EnvAlign \o <<"}">>,
      TextEmc2, TextLabelEq1, <<"<">>, <<"$">>, CloseBracket, <<" ">> }

\* cross-reference commands in pieces, braces and a list with \item
RefChunks ==
    { <<BS>>, <<"l", "a", "b", "e", "l", "{">>, <<BS, "c", "i", "t", "e", "{">>,
      <<"{">>, <<"}">>, <<"a">>, <<BS, "r", "e", "f", "{", "a", "}">>,
      LitBegin \o <<"i", "t", "e", "m", "i", "z", "e", "}">>, <<"[", "a", "]">>,
      LitEnd \o <<"e", "n", "u", "m", "e", "r", "a", "t", "e", "}">>,
      LitItem, <<"~">>, <<" ">> }

----------------------------------------------------------------------------
(* The state machine: one call of processLatexForDisplay on an input       *)

\* lines 25-81, called from displayArtifact (line 257) and displayQueries (288)
\* the values of predicted_candidates
RawArray(v) == [kind |-> "array", val |-> v, text |-> <<>>]
RawNull == [kind |-> "null", val |-> JsNull, text |-> <<>>]
RawUndefined == [kind |-> "undefined", val |-> JsUndefined, text |-> <<>>]
RawOther(v) == [kind |-> "other", val |-> v, text |-> <<>>]
RawString(s) == [kind |-> "string", val |-> JsStr(s), text |-> s]

TextFoo == <<"F", "o", "o">>
TextHalf == <<"0", ".", "5">>
Quoted(s) == <<"'">> \o s \o <<"'">>
DoubleQuoted(s) == <<"\"">> \o s \o <<"\"">>

\* a, b, c joined with ', '
JoinComma(ss) ==
    Flatten([k \in 1..Len(ss) |-> IF k = 1 THEN ss[k] ELSE <<",", " ">> \o ss[k]])

\* the near-JSON output of a Python repr: [{'key': value, ...}, ...]
FieldKeys == {KeyTitle, KeyConfidence}
FieldValues == {Quoted(TextFoo), Quoted(WordPyNone), WordPyNone, WordPyTrue, WordPyFalse, TextHalf}
FieldTexts == {Quoted(k) \o <<":", " ">> \o v : k \in FieldKeys, v \in FieldValues}
RecordText(fields) == <<"{">> \o JoinComma(fields) \o <<"}">>
ListText(records) == <<"[">> \o JoinComma(records) \o <<"]">>

MaxFields == 2

\* one record of up to MaxFields fields, or two records of one field
RecordListTexts ==
    {ListText(<<RecordText(fs)>>) : fs \in SeqsUpTo(FieldTexts, MaxFields)}
        \cup {ListText(<<RecordText(<<f>>), RecordText(<<g>>)>>) : f \in FieldTexts, g \in FieldTexts}

\* strict JSON of every shape
JsonTexts ==
    { <<"[", "]">>, <<"{", "}">>, <<"n", "u", "l", "l">>, <<"t", "r", "u", "e">>,
      <<"5">>, <<"0">>, DoubleQuoted(TextFoo), DoubleQuoted(<<>>),
      <<"[", "n", "u", "l", "l", "]">>,
      <<"[">> \o DoubleQuoted(TextFoo) \o <<"]">>,
      <<"[", "[", "]", "]">>, <<"[", "5", "]">>,
      <<"[", "{">> \o DoubleQuoted(KeyTitle) \o <<":", " ">> \o DoubleQuoted(TextFoo) \o <<"}", "]">>,
      <<"[", "{">> \o DoubleQuoted(KeyReference) \o <<":", " ", "{">> \o DoubleQuoted(KeyTitle)
            \o <<":", " ">> \o DoubleQuoted(TextFoo) \o <<"}", ",", " ">>
            \o DoubleQuoted(KeyScore) \o <<":", " ">> \o TextHalf \o <<"}", "]">>,
      <<"{">> \o DoubleQuoted(KeyLength) \o <<":", " ", "0", "}">>,
      <<" ", "[", "]", "\n">> }

\* empty and blank strings
BlankTexts == { <<>>, <<" ">>, <<"\n", " ", "\t">> }

\* lists the rewrite leaves with a single quote, and other texts only the
\* evaluation can read
LiteralTexts ==
    { ListText(<<Quoted(TextFoo), Quoted(TextFoo)>>),
      ListText(<<Quoted(TextFoo), Quoted(WordPyNone)>>),
      ListText(<<Quoted(TextFoo), WordPyNone>>) \o <<" ">>,
      <<"{">> \o Quoted(KeyTitle) \o <<":", " ">> \o Quoted(TextFoo) \o <<",", " ">>
            \o Quoted(KeyScore) \o <<":", " ", "T", "r", "u", "e", "}">>,
      ListText(<<Quoted(TextFoo), Quoted(TextFoo), WordPyNone>>),
      ListText(<<Quoted(<<"<", "b", ">">>), Quoted(TextFoo)>>),
      Quoted(TextFoo), Quoted(<<>>),
      LoopText }

\* texts no attempt reads
BrokenTexts ==
    { <<"[">>, <<"[", "{">>, <<"]">>, <<"<", "b", ">">>, <<"[", "=", "]">>,
      <<"[", "<", "]">>, <<"F", "o", "o", " ", "b", "a", "r">>,
      <<"[">> \o Quoted(TextFoo), <<"{", "'">>, <<"N", "o", "n", "e", "[">>,
      <<"[", "'", "<", "'", ",", "'", "<", "'", "]">> }

\* arrays the data file holds as arrays
ArrayValues ==
    { JsArr(<<>>), JsArr(<<JsStr(TextFoo)>>), JsArr(<<JsNull>>),
      JsArr(<<JsObj(<<JsEntry(KeyTitle, JsStr(TextFoo)), JsEntry(KeyConfidence, JsNum(TextHalf))>>)>>),
      JsArr(<<JsStr(TextFoo), JsObj(<<>>)>>) }

\* values that are no array, no string and not null
OtherValues == { JsNum(<<"5">>), JsNum(<<"0">>), JsObj(<<>>), JsTrue, JsFalse }

Payloads ==
    {RawArray(v) : v \in ArrayValues} \cup {RawNull, RawUndefined}
        \cup {RawOther(v) : v \in OtherValues}
        \cup {RawString(s) : s \in RecordListTexts \cup JsonTexts \cup BlankTexts
                                        \cup LiteralTexts \cup BrokenTexts}

MaxEscChunks == 3

\* the five characters escapeHTML replaces, a letter, and the tails of entities
EscChunks ==
    { <<"&">>, <<"<">>, <<">">>, <<"\"">>, <<"'">>, <<"a">>, <<"a", "m", "p", ";">> }

\* numbers as data.json writes them: at most three decimals, a third decimal 5
\* only where the product with 100 is exact
NumberTexts ==
    {sg \o ip \o fp :
        sg \in {<<>>, <<"-">>},
        ip \in {<<"0">>, <<"1">>, <<"3">>, <<"1", "2">>},
        fp \in { <<>>, <<".", "0">>, <<".", "5">>, <<".", "8", "7">>, <<".", "8", "7", "3">>,
                 <<".", "1", "2", "5">>, <<".", "3", "7", "5">>, <<".", "0", "5">>,
                 <<".", "0", "7">>, <<".", "2", "9">>, <<".", "9", "9", "9">>,
                 <<".", "0", "0", "4">>, <<".", "9", "9", "6">> }}

TextAbc == <<"a", "b", "c">>

\* strings found in the place of a confidence
ConfidenceTexts ==
    { TextAbc, <<>>, <<" ", "0", ".", "5", " ">>, <<"<", "b", ">">>, TextInfinity,
      <<"a", "&", "b">>, <<"0", ".", "8", "7", "3">>, <<"3">>, <<"1">>, <<".", "5">> }

\* the values of the confidence or score of a candidate
ConfidenceValues ==
    {JsNum(s) : s \in NumberTexts} \cup {JsStr(s) : s \in ConfidenceTexts}
        \cup {JsTrue, JsFalse, JsNull}

\* candidates: plain strings, and records with a title, a confidence or a
\* score, and a reasoning
CardCandidates ==
    {JsStr(s) : s \in Texts(EscChunks, MaxEscChunks)}
        \cup {JsObj(<<JsEntry(KeyTitle, JsStr(TextFoo)), JsEntry(KeyConfidence, c)>>) :
                    c \in ConfidenceValues}
        \cup {JsObj(<<JsEntry(KeyReference, JsObj(<<JsEntry(KeyTitle, JsStr(s))>>)),
                      JsEntry(KeyScore, c), JsEntry(KeyReasoning, JsStr(s))>>) :
                    s \in Texts(EscChunks, 1), c \in {JsNum(TextHalf), JsStr(TextAbc), JsNull}}

\* ids of papers and artifacts
PaperAmp == <<"a", "&", "b">>
PaperSpace == <<"c", " ", "d">>
PaperPlain == <<"2", "4", "0", "1">>
PaperUnknown == <<"n", "o", "n", "e">>
ArtT1 == <<"t", "1">>
ArtT2 == <<"t", "2">>
ArtT3 == <<"t", "3">>
ArtT4 == <<"t", "4">>
ArtPlus == <<"x", "+", "y">>
ArtEq == <<"l", "=", "1", "%">>

Artifact(id, refs) == [id |-> id, refs |-> refs]

MaxPapers == 3
MaxArtifacts == 3

PaperIds == {DEFAULT_PAPER_ID, PaperAmp, PaperSpace, PaperPlain}

\* the artifacts of each paper: one paper has none, one starts with an artifact
\* whose references make displayReferences throw
AllArtifacts(id) ==
    CASE id = DEFAULT_PAPER_ID ->
            <<Artifact(ArtT1, "ok"), Artifact(ArtT2, "none"), Artifact(ArtT3, "ok"),
              Artifact(ArtT4, "ok")>>
      [] id = PaperAmp -> <<Artifact(ArtPlus, "ok"), Artifact(ArtEq, "none")>>
      [] id = PaperPlain -> <<Artifact(ArtT1, "raises"), Artifact(ArtT2, "ok")>>
      [] OTHER -> <<>>

Paper(id) ==
    [id |-> id,
     artifacts |-> SubSeq(AllArtifacts(id), 1,
                          IF Len(AllArtifacts(id)) < MaxArtifacts
                          THEN Len(AllArtifacts(id)) ELSE MaxArtifacts)]

\* the datasets: up to MaxPapers papers with distinct ids, in any order
Datasets ==
    {[k \in 1..Len(ids) |-> Paper(ids[k])] :
        ids \in {s \in SeqsUpTo(PaperIds, MaxPapers) :
                    Len(s) >= 1 /\ \A i, j \in 1..Len(s) : i # j => s[i] # s[j]}}

\* the fragments a user opens the page with or changes the address to
Fragments ==
    { <<>>, <<"#">>,
      NewHash(DEFAULT_PAPER_ID, ArtT2), NewHash(DEFAULT_PAPER_ID, NullId),
      NewHash(PaperAmp, ArtEq), NewHash(PaperAmp, ArtT1),
      NewHash(PaperSpace, NullId), NewHash(PaperPlain, ArtT1),
      NewHash(PaperUnknown, ArtT2),
      <<"#">> \o KeyArtifact \o <<"=">> \o ArtT2,
      <<"#">> \o KeyPaper \o <<"=">> \o PaperAmp \o <<"&">> \o KeyArtifact \o <<"=">> \o ArtPlus,
      <<"#">> \o KeyPaper \o <<"=", "c", "+", "d">> }

Process ==
    /\ pc = "ready"
    /\ latex' = ProcessLatexForDisplay(rawStr)
    /\ pc' = "done"
    /\ UNCHANGED <<rawStr, predicted, cand, view>>
    /\ UNCHANGED navVars

\* no query is on display while a text is processed
NoQuery ==
    /\ predicted = RawUndefined
    /\ cand = NoCandidates
    /\ view = NoView

\* what the last handler did, before any event (fragment is the fragment a
\* hashchange event came with)
NoEvent ==
    [ev |-> "none", rendered |-> FALSE, lookup |-> "none", raised |-> FALSE,
     pushed |-> FALSE, fired |-> FALSE, accepted |-> FALSE, fragment |-> <<>>]

NoRun == [from |-> NullId, n |-> 0]

\* no dataset is loaded while a text or a candidate list is processed
NoPage ==
    /\ papers = <<>>
    /\ currentPaperId = NullId
    /\ currentArtifactId = NullId
    /\ hash = <<>>
    /\ dom = EmptyDom
    /\ listening = FALSE
    /\ lastEvent = NoEvent
    /\ run = NoRun

InitSeg ==
    /\ pc = "ready"
    /\ rawStr \in Texts(SegChunks, MaxSegChunks)
    /\ latex = NoLatex
    /\ NoQuery
    /\ NoPage

InitBr ==
    /\ pc = "ready"
    /\ rawStr \in Texts(BrChunks, MaxBrChunks)
    /\ latex = NoLatex
    /\ NoQuery
    /\ NoPage

InitEnv ==
    /\ pc = "ready"
    /\ rawStr \in Texts(EnvChunks, MaxEnvChunks)
    /\ latex = NoLatex
    /\ NoQuery
    /\ NoPage

InitRef ==
    /\ pc = "ready"
    /\ rawStr \in Texts(RefChunks, MaxRefChunks)
    /\ latex = NoLatex
    /\ NoQuery
    /\ NoPage

NextLatex == Process

\* displayReferences(queryIndex), lines 308-343, the call of parseCandidates
\* included: text is its variable of line 90, s1, s2, s3 and s the values of
\* its variable s after lines 95, 96, 97 and 98
DisplayReferences ==
    /\ pc = "ready"
    /\ \E text \in {TrimmedText(predicted)} :
       \E s1 \in {ReplacePyConstants(text)} :
       \E s2 \in {RewriteKeys(s1)} :
       \E s3 \in {RewriteValues(s2)} :
       \E s \in {RewriteElements(s3)} :
           cand' = ParseCandidates(predicted, text, s)
    /\ view' = IF cand'.returns THEN RenderCandidates(cand'.val) ELSE NoView
    /\ pc' = IF ~cand'.returns THEN "hung"
             ELSE IF view'.outcome = "raised" THEN "raised"
             ELSE "done"
    /\ UNCHANGED <<rawStr, latex, predicted>>
    /\ UNCHANGED navVars

InitParse ==
    /\ pc = "ready"
    /\ rawStr = <<>>
    /\ latex = NoLatex
    /\ predicted \in Payloads
    /\ cand = NoCandidates
    /\ view = NoView
    /\ NoPage

NextParse == DisplayReferences

SpecSeg == InitSeg /\ [][NextLatex]_vars
SpecBr == InitBr /\ [][NextLatex]_vars
SpecEnv == InitEnv /\ [][NextLatex]_vars
SpecRef == InitRef /\ [][NextLatex]_vars
SpecParse == InitParse /\ [][NextParse]_vars

\* a query whose predicted_candidates is an array of one candidate
InitCard ==
    /\ pc = "ready"
    /\ rawStr = <<>>
    /\ latex = NoLatex
    /\ predicted \in {RawArray(JsArr(<<c>>)) : c \in CardCandidates}
    /\ cand = NoCandidates
    /\ view = NoView
    /\ NoPage

SpecCard == InitCard /\ [][NextParse]_vars

\* what a handler that calls displayArtifact did, r being the outcome of the call
Handled(ev, r) ==
    [ev |-> ev, rendered |-> r.rendered, lookup |-> r.lookup, raised |-> r.raised,
     pushed |-> r.pushed, fired |-> r.fired, accepted |-> TRUE, fragment |-> <<>>]

\* what a handler that returned without calling displayArtifact did
Ignored(ev) == [NoEvent EXCEPT !.ev = ev]

\* the handler of the fetched data, lines 138-181, for a dataset with papers:
\* an exception out of displayArtifact skips the registration of line 171 and
\* is caught at line 182
Load ==
    /\ pc = "ready"
    /\ pc' = "idle"
    /\ \E sel \in {InitialSelection(papers, hash)} :
       \E r \in {DisplayArtifact(papers, sel.paperId, sel.artifactId, hash, dom)} :
          /\ currentPaperId' = sel.paperId
          /\ currentArtifactId' = sel.artifactId
          /\ hash' = r.hash
          /\ dom' = IF r.raised THEN [r.dom EXCEPT !.paper = NullId, !.failed = TRUE] ELSE r.dom
          /\ listening' = ~r.raised
          /\ lastEvent' = Handled("load", r)
    /\ run' = NoRun
    /\ UNCHANGED <<papers, rawStr, latex, predicted, cand, view>>

\* the address changes to the fragment f and the hashchange event is handled,
\* lines 171-180
HashChange ==
    /\ pc = "idle"
    /\ \E f \in Fragments \ {hash} :
       \E sel \in {HashSelection(papers, f)} :
          IF listening /\ sel.accepted
          THEN \E r \in {DisplayArtifact(papers, sel.paperId, sel.artifactId, f, dom)} :
                  /\ currentPaperId' = sel.paperId
                  /\ currentArtifactId' = sel.artifactId
                  /\ hash' = r.hash
                  /\ dom' = r.dom
                  /\ lastEvent' = [Handled("hashchange", r) EXCEPT !.fragment = f]
          ELSE /\ hash' = f
               /\ lastEvent' = [Ignored("hashchange") EXCEPT !.fragment = f]
               /\ UNCHANGED <<currentPaperId, currentArtifactId, dom>>
    /\ run' = NoRun
    /\ UNCHANGED <<pc, papers, listening, rawStr, latex, predicted, cand, view>>

\* handlePaperChange, lines 197-204, the menu showing the paper at position k
HandlePaperChange ==
    /\ pc = "idle"
    /\ \E k \in 1..Len(papers) :
          IF Len(papers[k].artifacts) > 0
          THEN \E r \in {DisplayArtifact(papers, papers[k].id, papers[k].artifacts[1].id,
                                         hash, dom)} :
                  /\ currentPaperId' = papers[k].id
                  /\ currentArtifactId' = papers[k].artifacts[1].id
                  /\ hash' = r.hash
                  /\ dom' = r.dom
                  /\ lastEvent' = Handled("change", r)
          ELSE /\ currentPaperId' = papers[k].id
               /\ lastEvent' = [Ignored("change") EXCEPT !.accepted = TRUE]
               /\ UNCHANGED <<currentArtifactId, hash, dom>>
    /\ run' = NoRun
    /\ UNCHANGED <<pc, papers, listening, rawStr, latex, predicted, cand, view>>

\* NextPaperClick keeping the selected artifact when the next paper has none
NextPaperClickKeepsArtifact ==
    /\ pc = "idle"
    /\ dom.controls
    /\ \E next \in {(FindIndex(papers, currentPaperId) % Len(papers)) + 1} :
       \E a \in {IF papers[next].artifacts = <<>> THEN currentArtifactId
                  ELSE FirstId(papers[next].artifacts)} :
       \E r \in {DisplayArtifact(papers, papers[next].id, a, hash, dom)} :
          /\ currentPaperId' = papers[next].id
          /\ currentArtifactId' = a
          /\ hash' = r.hash
          /\ dom' = r.dom
          /\ lastEvent' = Handled("next paper", r)
    /\ run' = IF run.n = 0 THEN [from |-> currentPaperId, n |-> 1]
              ELSE [run EXCEPT !.n = (run.n % Len(papers)) + 1]
    /\ UNCHANGED <<pc, papers, listening, rawStr, latex, predicted, cand, view>>

\* the click listener of the Next Paper button, lines 243-251
NextPaperClick ==
    /\ pc = "idle"
    /\ dom.controls
    /\ \E next \in {(FindIndex(papers, currentPaperId) % Len(papers)) + 1} :
       \E r \in {DisplayArtifact(papers, papers[next].id, FirstId(papers[next].artifacts),
                                  hash, dom)} :
          /\ currentPaperId' = papers[next].id
          /\ currentArtifactId' = FirstId(papers[next].artifacts)
          /\ hash' = r.hash
          /\ dom' = r.dom
          /\ lastEvent' = Handled("next paper", r)
    /\ run' = IF run.n = 0 THEN [from |-> currentPaperId, n |-> 1]
              ELSE [run EXCEPT !.n = (run.n % Len(papers)) + 1]
    /\ UNCHANGED <<pc, papers, listening, rawStr, latex, predicted, cand, view>>

\* the index (from 1) a click on prevBtn (step -1) or nextBtn (step 1) moves
\* to, 0 if the click changes nothing: lines 358-360 and 366-368
ArtifactTarget(ps, paperId, artifactId, step) ==
    LET pi == FindIndex(ps, paperId)
        currentIndex == FindIndex(ps[pi].artifacts, artifactId) - 1
    IN  IF step = -1
        THEN (IF currentIndex > 0 THEN currentIndex ELSE 0)
        ELSE (IF currentIndex < Len(ps[pi].artifacts) - 1 THEN currentIndex + 2 ELSE 0)

\* the click listener of prevBtn, lines 357-364
PrevClick ==
    /\ pc = "idle"
    /\ \E pi \in {FindIndex(papers, currentPaperId)} :
       \E to \in {ArtifactTarget(papers, currentPaperId, currentArtifactId, -1)} :
          IF to # 0
          THEN \E r \in {DisplayArtifact(papers, currentPaperId,
                                         papers[pi].artifacts[to].id, hash, dom)} :
                  /\ currentArtifactId' = papers[pi].artifacts[to].id
                  /\ hash' = r.hash
                  /\ dom' = r.dom
                  /\ lastEvent' = Handled("prev", r)
          ELSE /\ lastEvent' = Ignored("prev")
               /\ UNCHANGED <<currentArtifactId, hash, dom>>
    /\ run' = NoRun
    /\ UNCHANGED <<pc, papers, currentPaperId, listening, rawStr, latex, predicted, cand, view>>

\* the click listener of nextBtn, lines 365-372
NextClick ==
    /\ pc = "idle"
    /\ \E pi \in {FindIndex(papers, currentPaperId)} :
       \E to \in {ArtifactTarget(papers, currentPaperId, currentArtifactId, 1)} :
          IF to # 0
          THEN \E r \in {DisplayArtifact(papers, currentPaperId,
                                         papers[pi].artifacts[to].id, hash, dom)} :
                  /\ currentArtifactId' = papers[pi].artifacts[to].id
                  /\ hash' = r.hash
                  /\ dom' = r.dom
                  /\ lastEvent' = Handled("next", r)
          ELSE /\ lastEvent' = Ignored("next")
               /\ UNCHANGED <<currentArtifactId, hash, dom>>
    /\ run' = NoRun
    /\ UNCHANGED <<pc, papers, currentPaperId, listening, rawStr, latex, predicted, cand, view>>

InitNav ==
    /\ pc = "ready"
    /\ rawStr = <<>>
    /\ latex = NoLatex
    /\ NoQuery
    /\ papers \in Datasets
    /\ currentPaperId = NullId
    /\ currentArtifactId = NullId
    /\ hash \in Fragments
    /\ dom = EmptyDom
    /\ listening = FALSE
    /\ lastEvent = NoEvent
    /\ run = NoRun

NextNav ==
    \/ Load
    \/ HashChange
    \/ HandlePaperChange
    \/ NextPaperClick
    \/ PrevClick
    \/ NextClick

SpecNav == InitNav /\ [][NextNav]_vars

----------------------------------------------------------------------------
(* Vocabulary of the claims about processLatexForDisplay                    *)

Entities ==
    { <<"&", "a", "m", "p", ";">>, <<"&", "l", "t", ";">>, <<"&", "g", "t", ";">>,
      <<"&", "q", "u", "o", "t", ";">>, <<"&", "#", "3", "9", ";">> }

EntityChar(e) ==
    CASE e = <<"&", "a", "m", "p", ";">> -> "&"
      [] e = <<"&", "l", "t", ";">> -> "<"
      [] e = <<"&", "g", "t", ";">> -> ">"
      [] e = <<"&", "q", "u", "o", "t", ";">> -> "\""
      [] OTHER -> "'"

\* the inverse of escaping: each of the five entities back to its character
UnescapeHTML(h) ==
    LET n == Len(h)
        f[i \in 1..(n + 1)] ==
            IF i > n THEN <<>>
            ELSE LET es == {e \in Entities : IsPrefixAt(e, h, i)}
                 IN  IF es # {}
                     THEN LET e == CHOOSE x \in es : TRUE
                          IN  <<EntityChar(e)>> \o f[i + Len(e)]
                     ELSE <<h[i]>> \o f[i + 1]
    IN  f[1]

\* h holds no character the page parser reads as markup: no literal < > " ',
\* and every & starts one of the five entities
Neutralized(h) ==
    \A i \in 1..Len(h) :
        /\ h[i] \notin {"<", ">", "\"", "'"}
        /\ h[i] = "&" => \E e \in Entities : IsPrefixAt(e, h, i)

MathSegs(segs) == {k \in 1..Len(segs) : segs[k].kind = "math"}
PlainSegs(segs) == {k \in 1..Len(segs) : segs[k].kind = "plain"}

\* C1: every < > & " ' of the input outside the math spans reaches the output as
\* its entity: with no \item in the input (the normalizer then inserts no line
\* break of its own), what the output holds for a plain span has no live markup.
C1_PlainTextNeutralized ==
    (pc = "done" /\ ~Contains(rawStr, LitItem)) =>
        \A k \in PlainSegs(latex.segs) : Neutralized(RestoreBreaks(latex.segs[k].html))

\* C2: inside a math span every literal < and > is emitted as &lt; / &gt;, so what
\* is appended for a math span holds no literal < or >.
C2_MathAnglesEscaped ==
    pc = "done" =>
        \A k \in MathSegs(latex.segs) :
            \A i \in 1..Len(latex.segs[k].html) : latex.segs[k].html[i] \notin {"<", ">"}

PairParen == [open |-> OpenParen, close |-> CloseParen]
PairBracket == [open |-> OpenBracket, close |-> CloseBracket]
PairDouble == [open |-> DoubleDollar, close |-> DoubleDollar]
PairDollar == [open |-> Dollar, close |-> Dollar]

\* the opener of pair d stands at i and its closer occurs nowhere after it
UnclosedAt(d, s, i) ==
    IsPrefixAt(d.open, s, i) /\ IndexOfFrom(d.close, s, i + Len(d.open)) = 0

StartsMath(segs, i) == \E k \in MathSegs(segs) : segs[k].from = i
InsideMath(segs, i) == \E k \in MathSegs(segs) : segs[k].from <= i /\ i < segs[k].to

\* position i lies in a plain segment that was appended escaped and that runs
\* up to the next math span (or to the end of the string)
EscapedAsPlain(segs, i) ==
    \E k \in PlainSegs(segs) :
        /\ segs[k].from <= i /\ i < segs[k].to
        /\ segs[k].html = EscapeHTML(segs[k].src)
        /\ k < Len(segs) => segs[k + 1].kind = "math" /\ segs[k + 1].from = segs[k].to

\* C3 as stated: an opener ($, $$, \( or \[) with no matching closer later in the
\* text never starts a math span.
C3_UnclosedNeverStarts ==
    pc = "done" =>
        \A d \in {PairParen, PairBracket, PairDouble, PairDollar} :
            \A i \in 1..Len(latex.processedStr) :
                UnclosedAt(d, latex.processedStr, i) => ~StartsMath(latex.segs, i)

\* C3 amended: a $, \( or \[ with no matching closer later never starts a math
\* span, and outside the math spans it and the text after it, up to the next
\* span, are appended escaped; a $$ with no $$ later starts at most the empty
\* span made of its own two dollars.
C3_UnclosedIsPlain ==
    pc = "done" =>
        \A i \in 1..Len(latex.processedStr) :
            /\ \A d \in {PairParen, PairBracket, PairDollar} :
                UnclosedAt(d, latex.processedStr, i) =>
                    /\ ~StartsMath(latex.segs, i)
                    /\ ~InsideMath(latex.segs, i) => EscapedAsPlain(latex.segs, i)
            /\ UnclosedAt(PairDouble, latex.processedStr, i) =>
                \A k \in MathSegs(latex.segs) :
                    latex.segs[k].from = i => latex.segs[k].to = i + 2

\* C3 witness: an unclosed \( in plain text, followed by a properly closed span
C3_Witness ==
    /\ pc = "done"
    /\ \E i \in 1..Len(latex.processedStr) :
        /\ UnclosedAt(PairParen, latex.processedStr, i)
        /\ ~InsideMath(latex.segs, i)
        /\ \E k \in MathSegs(latex.segs) : latex.segs[k].from > i

\* C4: the segments, concatenated in order with the escaping of the plain ones
\* undone and the sentinel put back as the line break, give the normalized
\* string again (inputs with \hspace, which the math repairs change, set aside).
C4_Reconstructs ==
    (pc = "done" /\ ~Contains(rawStr, LitHspace)) =>
        RestoreBreaks(Flatten([k \in 1..Len(latex.segs) |->
            IF latex.segs[k].kind = "plain"
            THEN UnescapeHTML(latex.segs[k].html)
            ELSE latex.segs[k].html])) = latex.normalized

\* C5: the output holds <br> only where the normalizer put its marker for an
\* \item: an input without \item gives an output without <br>.
C5_BreaksOnlyFromItems ==
    (pc = "done" /\ ~Contains(rawStr, LitItem)) => ~Contains(latex.html, LitBr)

\* the tags that open / close the environment called name, starred or not
BeginTags(name) == {LitBegin \o name \o <<"}">>, LitBegin \o name \o <<"*", "}">>}
EndTags(name) == {LitEnd \o name \o <<"}">>, LitEnd \o name \o <<"*", "}">>}

\* the block of s that starts at i, read off its text, as a set (empty when none
\* starts there): a \begin tag of an equation or align at i, ending before a, and
\* the nearest \end tag of the same name at j, ending before e
BlockFrom(s, i) ==
    UNION { UNION { LET a == i + Len(bt)
                        ends == {j \in a..Len(s) :
                                    \E et \in EndTags(name) : IsPrefixAt(et, s, j)}
                    IN  IF ~IsPrefixAt(bt, s, i) \/ ends = {} THEN {}
                        ELSE LET j == MinOf(ends)
                                 et == CHOOSE x \in EndTags(name) : IsPrefixAt(x, s, j)
                             IN  {[i |-> i, a |-> a, j |-> j, e |-> j + Len(et)]}
                    : bt \in BeginTags(name) }
            : name \in MathEnvs }

\* the first block of s, as a set (empty when s has no block)
FirstBlock(s) ==
    LET starts == {i \in 1..Len(s) : BlockFrom(s, i) # {}}
    IN  IF starts = {} THEN {} ELSE BlockFrom(s, MinOf(starts))

HasChar(s, cs) == \E k \in 1..Len(s) : s[k] \in cs

\* every { of s is closed by a later } of s, and no } comes first
BraceBalanced(s) ==
    LET d[k \in 0..Len(s)] ==
            IF k = 0 THEN 0
            ELSE LET before == d[k - 1]
                 IN  IF before < 0 THEN -1
                     ELSE IF s[k] = "{" THEN before + 1
                     ELSE IF s[k] = "}" THEN before - 1
                     ELSE before
    IN  d[Len(s)] = 0

\* step 1 on the first block b of the input: the text before it is kept and the
\* block becomes \[ + the trimmed inner content + \]
ConvertedBlock(b) ==
    IsPrefixAt(Slice(rawStr, 1, b.i) \o OpenBracket
                   \o Trim(Slice(rawStr, b.a, b.j)) \o CloseBracket,
               latex.afterEnv, 1)

\* the first \[ of the string the segmenter scans and the first \] after it are
\* the ends of one math span, appended as it stands
OneUnescapedSpan ==
    LET s == latex.processedStr
        p == IndexOfFrom(OpenBracket, s, 1)
        q == IF p = 0 THEN 0 ELSE IndexOfFrom(CloseBracket, s, p + 2)
    IN  /\ p # 0 /\ q # 0
        /\ \E k \in MathSegs(latex.segs) :
            /\ latex.segs[k].from = p /\ latex.segs[k].to = q + 2
            /\ latex.segs[k].html = latex.segs[k].src

\* the text before the block and inside it has no square bracket of its own, so
\* the first \[ and \] scanned are those that step 1 wrote for the block
OwnBrackets(b) ==
    /\ ~HasChar(Slice(rawStr, 1, b.i), {"[", "]"})
    /\ ~HasChar(Slice(rawStr, b.a, b.j), {"[", "]"})

HasRefCommand(s) ==
    \E i \in 1..Len(s) : \E c \in RefCommands :
        /\ IsPrefixAt(<<BS>> \o c \o <<"{">>, s, i)
        /\ IndexOfFrom(<<"}">>, s, i + Len(c) + 2) # 0

\* C7: after normalization no \label{..}, \ref{..}, \eqref{..} or \cite{..} is
\* left, and none has left a part of its argument behind: a command deleted with
\* its whole brace group keeps brace-balanced text brace-balanced.
C7_NoResidue ==
    pc = "done" =>
        /\ ~HasRefCommand(latex.normalized)
        /\ (BraceBalanced(rawStr) /\ HasRefCommand(rawStr)) => BraceBalanced(latex.normalized)

----------------------------------------------------------------------------
(* The candidate list of a query                                           *)

\* a non-empty list of candidates, each a string or a record
IsCandidateList(v) ==
    /\ v.t = "arr"
    /\ v.items # <<>>
    /\ \A k \in 1..Len(v.items) : v.items[k].t \in {"str", "obj"}

\* C8: displayReferences raises for no value of predicted_candidates, and a
\* payload that parseCandidates does not turn into a non-empty list of strings
\* and records ends in the 'No candidate references found' display.
C8_NeverRaises ==
    (pc # "ready" /\ cand.returns) =>
        /\ pc # "raised"
        /\ view.outcome # "raised"
        /\ ~IsCandidateList(cand.val) => view.outcome = "empty"

\* the result the three attempts give when taken in order, the first that
\* succeeds winning
StagedResult(raw) ==
    LET text == Trim(raw.text)
        strict == ParseWhole("json", text)
        lenient == ParseWhole("json", LenientRewrite(text))
        literal == JsEval(text)
    IN  CASE raw.kind = "array" -> raw.val
          [] raw.kind \in {"null", "undefined", "other"} -> JsArr(<<>>)
          [] raw.kind = "string" /\ text = <<>> -> JsArr(<<>>)
          [] OTHER ->
                IF strict.ok THEN strict.val
                ELSE IF lenient.ok THEN lenient.val
                ELSE IF AllowListed(text) /\ literal.outcome = "value" THEN literal.val
                ELSE JsArr(<<>>)

\* C9: parseCandidates returns for every argument: an array unchanged, the empty
\* array for null, undefined, a value that is neither string nor array and a
\* blank string, and for any other string the result of the first of the three
\* attempts that succeeds, the empty array if none does.
C9_TotalAndStaged ==
    pc # "ready" =>
        /\ pc # "hung"
        /\ cand.returns
        /\ cand.val = StagedResult(predicted)

\* C10: for a list of flat records written with single quotes and bare None,
\* True and False, parseCandidates returns the structure the text denotes: keys
\* and string values character for character, only the bare words turned
\* into null, true and false.
C10_RecordsEquivalent ==
    (pc # "ready" /\ predicted.kind = "string" /\ predicted.text \in RecordListTexts) =>
        /\ cand.returns
        /\ cand.val = ParseWhole("py", predicted.text).val

----------------------------------------------------------------------------
(* Navigation: the claims about the selection, the fragment and the page   *)

\* the ids of the items of a list
IdsOf(items) == {items[k].id : k \in 1..Len(items)}

\* the paper of the dataset with the id
PaperOf(ps, id) == ps[CHOOSE k \in 1..Len(ps) : ps[k].id = id]

\* the first artifact of a paper, none when the paper has no artifacts
FirstArtifactOf(paper) == IF paper.artifacts = <<>> THEN NullId ELSE paper.artifacts[1].id

\* the paper a fragment selects on load
PaperChosenOnLoad(ps, fragment) ==
    IF ParseHash(fragment).paperId \in IdsOf(ps) THEN ParseHash(fragment).paperId
    ELSE IF DEFAULT_PAPER_ID \in IdsOf(ps) THEN DEFAULT_PAPER_ID
    ELSE ps[1].id

\* the artifact a fragment selects within a paper
ArtifactChosen(paper, fragment) ==
    IF ParseHash(fragment).artifactId \in IdsOf(paper.artifacts)
    THEN ParseHash(fragment).artifactId
    ELSE FirstArtifactOf(paper)

\* C11: the load handler selects the fragment's paper if it is loaded, else
\* the default id 2310.00736v2 if the dataset has it, else the first paper, and
\* within that paper the fragment's artifact if the paper has it, else the
\* paper's first artifact, or none when the paper has no artifacts.
C11_InitialSelection ==
    [][pc = "ready" /\ pc' = "idle" =>
          /\ currentPaperId' = PaperChosenOnLoad(papers, hash)
          /\ currentArtifactId' =
                ArtifactChosen(PaperOf(papers, PaperChosenOnLoad(papers, hash)), hash)]_vars

\* the load selected a paper other than the default although the dataset has
\* the default, and an artifact other than the first: both came from the fragment
C11_Witness ==
    /\ lastEvent.ev = "load"
    /\ DEFAULT_PAPER_ID \in IdsOf(papers)
    /\ currentPaperId # DEFAULT_PAPER_ID
    /\ currentArtifactId # FirstArtifactOf(PaperOf(papers, currentPaperId))

\* the handlers of the navigation events
NavigationEvents == {"change", "next paper", "prev", "next", "hashchange"}

\* the page shows the selection: the title is the paper's, the text is the
\* artifact's and the fragment names both
ShowsSelection ==
    /\ dom.paper = currentPaperId
    /\ dom.artifact = currentArtifactId
    /\ hash = NewHash(currentPaperId, currentArtifactId)

\* C12: after a navigation event that overwrote the selection has been handled,
\* the displayed paper and artifact and the address fragment correspond to
\* currentPaperId and currentArtifactId, also when the newly selected paper
\* has no artifacts.
C12_PageShowsSelection ==
    (lastEvent.ev \in NavigationEvents /\ lastEvent.accepted) => ShowsSelection

\* C13: every render (a displayArtifact call that passed its guard) leaves the
\* fragment equal to #paper=<encoded currentPaperId>&artifact=<encoded
\* currentArtifactId>, written without a history entry and without a
\* hashchange event, and parseHash of that fragment gives back exactly
\* currentPaperId and currentArtifactId.
C13_FragmentRoundTrips ==
    lastEvent.rendered =>
        /\ hash = <<"#", "p", "a", "p", "e", "r", "=">> \o EncodeURIComponent(currentPaperId)
                    \o <<"&", "a", "r", "t", "i", "f", "a", "c", "t", "=">>
                    \o EncodeURIComponent(currentArtifactId)
        /\ ~lastEvent.pushed
        /\ ~lastEvent.fired
        /\ ParseHash(hash) = [paperId |-> currentPaperId, artifactId |-> currentArtifactId]

\* a render of a selection whose two ids both hold characters that are encoded
C13_Witness ==
    /\ lastEvent.rendered
    /\ currentPaperId = PaperAmp
    /\ currentArtifactId = ArtEq
    /\ Len(hash) > Len(HashPaper) + Len(PaperAmp) + Len(HashArtifact) + Len(ArtEq)

\* C16: over every sequence of navigation events on a dataset with unique
\* non-empty ids, whenever displayArtifact passes its guard, currentPaperId
\* is the id of a loaded paper and currentArtifactId the id of an artifact of
\* that paper: neither lookup yields undefined.
C16_LookupsFind ==
    lastEvent.rendered =>
        /\ lastEvent.lookup = "found"
        /\ currentPaperId \in IdsOf(papers)
        /\ currentArtifactId \in IdsOf(PaperOf(papers, currentPaperId).artifacts)

\* a hashchange to the paper a&b was rendered with the first artifact of it
C16_Witness ==
    /\ lastEvent.ev = "hashchange"
    /\ lastEvent.rendered
    /\ currentPaperId = PaperAmp
    /\ currentArtifactId = ArtPlus
    /\ dom.artifact = ArtPlus

\* the index (from 0) of the selected artifact in the selected paper, -1 if
\* the paper does not have it
ArtifactIndex(ps, paperId, artifactId) ==
    FindIndex(PaperOf(ps, paperId).artifacts, artifactId) - 1

LastIndex(ps, paperId) == Len(PaperOf(ps, paperId).artifacts) - 1

\* a click that changed nothing and did not render
ClickIgnored ==
    /\ UNCHANGED <<currentPaperId, currentArtifactId, dom, hash>>
    /\ ~lastEvent'.rendered

\* a click that moved the artifact index by step within the paper and rendered
ClickMoved(step) ==
    /\ currentPaperId' = currentPaperId
    /\ ArtifactIndex(papers, currentPaperId, currentArtifactId') =
            ArtifactIndex(papers, currentPaperId, currentArtifactId) + step
    /\ lastEvent'.rendered

\* what a prev or next click does
PrevNextEffect ==
    /\ lastEvent'.ev = "prev" =>
            IF ArtifactIndex(papers, currentPaperId, currentArtifactId) <= 0
            THEN ClickIgnored ELSE ClickMoved(-1)
    /\ lastEvent'.ev = "next" =>
            IF ArtifactIndex(papers, currentPaperId, currentArtifactId)
                    >= LastIndex(papers, currentPaperId)
            THEN ClickIgnored ELSE ClickMoved(1)

\* the marks of the two buttons agree with the index of the selected artifact
ButtonsAgree ==
    /\ dom.prevDisabled = (ArtifactIndex(papers, currentPaperId, currentArtifactId) = 0)
    /\ dom.nextDisabled = (ArtifactIndex(papers, currentPaperId, currentArtifactId)
                                = LastIndex(papers, currentPaperId))

\* C18: a prev click at the first artifact and a next click at the last one (or
\* in a paper without artifacts) change nothing and do not render; any other
\* prev/next click moves the artifact index by exactly one, keeps
\* currentPaperId and renders; after every render prev is marked disabled
\* exactly at index 0 and next exactly at the last index.
C18_PrevNextInsidePaper ==
    /\ [][PrevNextEffect]_vars
    /\ [](lastEvent.rendered => ButtonsAgree)

\* the clicks alone, and the marks after the renders that ran to their end
PrevNextWhenRendersComplete ==
    /\ [][PrevNextEffect]_vars
    /\ []((lastEvent.rendered /\ ~lastEvent.raised) => ButtonsAgree)

\* what a hashchange event does, the address having changed to
\* lastEvent'.fragment
HashChangeEffect ==
    lastEvent'.ev = "hashchange" =>
        IF ParseHash(lastEvent'.fragment).paperId \notin IdsOf(papers)
        THEN /\ UNCHANGED <<currentPaperId, currentArtifactId, dom>>
             /\ hash' = lastEvent'.fragment
             /\ ~lastEvent'.rendered
        ELSE /\ currentPaperId' = ParseHash(lastEvent'.fragment).paperId
             /\ currentArtifactId' =
                    ArtifactChosen(PaperOf(papers, ParseHash(lastEvent'.fragment).paperId),
                                   lastEvent'.fragment)

\* C19: a hashchange whose fragment has no paper key or names a paper that is
\* not loaded leaves currentPaperId, currentArtifactId, the displayed content
\* and the fragment untouched and does not render; a hashchange naming a
\* loaded paper selects it, with the fragment's artifact if the paper has it,
\* otherwise the paper's first artifact.
C19_HashChangeFrame == [][HashChangeEffect]_vars

\* the same while the listener of line 171 is registered
HashChangeWhenListening == [][listening => HashChangeEffect]_vars

\* what a click on Next Paper does: the paper after the current one, the
\* first after the last, with its first artifact or none
NextPaperEffect ==
    lastEvent'.ev = "next paper" =>
        /\ currentPaperId' =
                papers[(FindIndex(papers, currentPaperId) % Len(papers)) + 1].id
        /\ currentArtifactId' = FirstArtifactOf(PaperOf(papers, currentPaperId'))

\* C20: each Next Paper click selects the paper at position (i+1) mod N, i
\* being the position of the current paper among the N loaded ones, with its
\* first artifact (none if it has none); the button is still there after a
\* step onto a paper without artifacts, and N consecutive clicks return to
\* the starting paper with its first artifact selected.
C20_NextPaperCycles ==
    /\ [][NextPaperEffect]_vars
    /\ [](lastEvent.ev = "next paper" => dom.controls)
    /\ [](run.n = Len(papers) =>
            /\ currentPaperId = run.from
            /\ currentArtifactId = FirstArtifactOf(PaperOf(papers, currentPaperId)))

\* three clicks in a row went round a dataset of three papers, one of them
\* without artifacts
C20_Witness ==
    /\ lastEvent.ev = "next paper"
    /\ Len(papers) = 3
    /\ run.n = 3
    /\ currentPaperId = run.from
    /\ \E k \in 1..3 : papers[k].artifacts = <<>> /\ papers[k].id # currentPaperId

----------------------------------------------------------------------------
(* The cards: escapeHTML, formatConfidence and buildCard                   *)

\* the cards on display and the candidates they were built from
Shown == IF pc = "done" /\ view.outcome = "cards" THEN 1..Len(view.cards) ELSE {}

\* what stands between <b> and </b> in the title of card k: escapeHTML(title)
EscapedTitle(k) ==
    SubSeq(view.cards[k].html.titleHTML, Len(TagBold) + 1,
           Len(view.cards[k].html.titleHTML) - Len(TagBoldEnd))

\* s with each of the five characters replaced by its entity
Replaced(s) ==
    Flatten([i \in 1..Len(s) |->
        CASE s[i] = "&" -> <<"&", "a", "m", "p", ";">>
          [] s[i] = "<" -> <<"&", "l", "t", ";">>
          [] s[i] = ">" -> <<"&", "g", "t", ";">>
          [] s[i] = "\"" -> <<"&", "q", "u", "o", "t", ";">>
          [] s[i] = "'" -> <<"&", "#", "3", "9", ";">>
          [] OTHER -> <<s[i]>>])

\* C14: escapeHTML(s) is s with each & < > " ' replaced by &amp; &lt; &gt;
\* &quot; &#39; and every other character unchanged; it is at least as long
\* as s, holds no literal < > " or ', and replacing the five entities back
\* gives exactly s.
C14_EscapeRoundTrips ==
    \A k \in Shown :
        cand.val.items[k].t = "str" =>
            /\ EscapedTitle(k) = Replaced(cand.val.items[k].s)
            /\ Len(EscapedTitle(k)) >= Len(cand.val.items[k].s)
            /\ ~HasChar(EscapedTitle(k), {"<", ">", "\"", "'"})
            /\ UnescapeHTML(EscapedTitle(k)) = cand.val.items[k].s

\* a title with a quotation mark, an apostrophe and the text of an entity
C14_Witness ==
    \E k \in Shown :
        /\ cand.val.items[k] = JsStr(<<"\"", "&", "a", "m", "p", ";">>)
        /\ EscapedTitle(k) = <<"&", "q", "u", "o", "t", ";", "&", "a", "m", "p", ";",
                               "a", "m", "p", ";">>

\* the integer nearest to 100 * x, a tie going up
NearestPercent(x) ==
    CHOOSE r \in -1400..100 : (2 * r - 1) * x.d <= 200 * x.n /\ 200 * x.n < (2 * r + 1) * x.d

\* C15: formatConfidence(c), n being Number(c), returns String(c) when n is
\* not finite, round(100 * n) followed by % when n is finite and n <= 1 (0
\* and negative values too), String(n) when n is finite and n > 1; 0.873
\* gives 87%, 3 gives 3, abc gives abc.
C15_FormatConfidence ==
    \A k \in Shown :
        view.cards[k].html.hasConf =>
            /\ view.cards[k].html.confText =
                    IF ToNumber(view.cards[k].confidence).k # "fin"
                    THEN JsString(view.cards[k].confidence)
                    ELSE IF ToNumber(view.cards[k].confidence).n
                                <= ToNumber(view.cards[k].confidence).d
                    THEN IntToString(NearestPercent(ToNumber(view.cards[k].confidence)))
                            \o <<"%">>
                    ELSE NumberToString(ToNumber(view.cards[k].confidence))
            /\ view.cards[k].confidence = JsNum(<<"0", ".", "8", "7", "3">>)
                    => view.cards[k].html.confText = <<"8", "7", "%">>
            /\ view.cards[k].confidence = JsNum(<<"3">>)
                    => view.cards[k].html.confText = <<"3">>
            /\ view.cards[k].confidence = JsStr(TextAbc)
                    => view.cards[k].html.confText = TextAbc
            /\ view.cards[k].confidence = JsNum(<<"1">>)
                    => view.cards[k].html.confText = <<"1", "0", "0", "%">>
            /\ view.cards[k].confidence = JsNum(<<"-", "0", ".", "1", "2", "5">>)
                    => view.cards[k].html.confText = <<"-", "1", "2", "%">>

\* the card of a candidate whose confidence is 0.873
C15_Witness ==
    \E k \in Shown :
        /\ view.cards[k].confidence = JsNum(<<"0", ".", "8", "7", "3">>)
        /\ view.cards[k].html.hasConf
        /\ view.cards[k].html.confText = <<"8", "7", "%">>

\* what stands in the confidence line of card k after the label
ConfidenceShown(k) ==
    SubSeq(view.cards[k].html.confHTML, Len(TagConfidence) + 1,
           Len(view.cards[k].html.confHTML) - Len(TagDivEnd))

\* what stands in the reasoning block of card k
ReasoningShown(k) ==
    SubSeq(view.cards[k].html.reasoningHTML, Len(TagReasoning) + 1,
           Len(view.cards[k].html.reasoningHTML) - Len(TagReasoningEnd))

\* C17: every value of the dataset that displayReferences inserts into a card
\* (title, confidence text, reasoning) is HTML-escaped: none can introduce
\* live markup, a non-numeric confidence that formatConfidence returns
\* unchanged included.
C17_CardValuesEscaped ==
    \A k \in Shown :
        /\ Neutralized(EscapedTitle(k))
        /\ Neutralized(ReasoningShown(k))
        /\ view.cards[k].html.hasConf => Neutralized(ConfidenceShown(k))

====
